---- MODULE Spec2Model ----
(***************************************************************************)
(* Model of clean-node-server: the route registry, the per-request        *)
(* lifecycle of CleanNodeServer, the in-memory session store, the         *)
(* database bridge and the allocation tracker (memory scopes).            *)
(*                                                                         *)
(* Strings that the code inspects character by character (request         *)
(* targets, route patterns) are sequences of one-character strings.       *)
(***************************************************************************)
EXTENDS Integers, Sequences, FiniteSets, TLC

VARIABLES
  routes,        \* RouteRegistry.routes (router/index.ts:7)
  matchResult,   \* outcome of the last RouteRegistry.match call
  sessions,      \* InMemorySessionStore.sessions : id -> SessionData
  now,           \* Date.now()
  issued,        \* identifiers generateSessionId has returned so far
  lastOp,        \* the last session-store call: its arguments, result, pre-state
  refCounts,     \* memory-runtime.ts:12
  scopeStack,    \* memory-runtime.ts:11
  heap,          \* guest allocator: the pointers malloc has handed out and not freed
  freeCalls,     \* the pointers the last tracker call passed to the guest's free export
  lastMem,       \* the last allocation-tracker call
  hasFree,       \* does the guest module export free ? (types/index.ts:9)
  phase,         \* "boot" | "starting" | "serving"  (CleanNodeServer.initialize)
  reqs,          \* per inbound request: its position in handleRequest and locals
  instances,     \* WasmState objects created by createWasmState
  running,       \* the request whose synchronous section is on the JS stack (0: none)
  lastQueryResult,   \* bridge/database.ts:9
  lastExecuteResult, \* bridge/database.ts:10
  dbOps,         \* database operations issued (promises), pending or settled
  lastCall,      \* the last database capability call: caller, operation, value returned
  hasDatabase,   \* is a database driver configured ? (WasmState.database)
  memory,        \* the guest's linear memory: memory[o + 1] is the byte at offset o
  mallocCalls,   \* number of calls of the guest's malloc made by the marshaller
  lastIo,        \* the last marshaller call: arguments, outcome, offsets read
  cleanupInterval, \* is the store's periodic cleanup timer set ? (session/store.ts:16)
  sandboxRoot,   \* bridge/file.ts:10
  lastFile,      \* the last file capability call: path, outcome, paths handed to fs
  freed,         \* addresses given to free and not handed out by malloc since
  trackedBy,     \* the instance that pushed each open scope / tracked each pointer
  valueMethods,  \* the session store implements storeValue / getValue / ...
  lastBridge,    \* the last key-value call of the session bridge and its result
  txOps,         \* transaction capability calls: argument, value returned, driver outcome
  transactions   \* the driver's open transactions (database/postgres.ts)

vars == << routes, matchResult, sessions, now, issued, lastOp, refCounts,
           scopeStack, heap, freeCalls, lastMem, hasFree, phase, reqs, instances,
           running, lastQueryResult, lastExecuteResult, dbOps, lastCall,
           hasDatabase, memory, mallocCalls, lastIo, cleanupInterval,
           sandboxRoot, lastFile, txOps, transactions, freed, trackedBy,
           valueMethods, lastBridge >>

routerVars  == << routes, matchResult >>
sessionVars == << sessions, now, issued, lastOp >>
memVars     == << refCounts, scopeStack, heap, freeCalls, lastMem, hasFree,
                  freed, trackedBy >>
marshalVars == << memory, mallocCalls, lastIo >>
fileVars    == << sandboxRoot, lastFile >>
\* what no step of the server's request lifecycle changes
txVars      == << txOps, transactions >>
bridgeVars  == << valueMethods, lastBridge >>
otherVars   == << marshalVars, cleanupInterval, fileVars, bridgeVars >>
serverVars  == << phase, reqs, instances, running, lastQueryResult,
                  lastExecuteResult, dbOps, lastCall, hasDatabase >>

----------------------------------------------------------------------------
(* Generic helpers *)

Max(S) == CHOOSE x \in S : \A y \in S : y <= x

Drop(s, n) == SubSeq(s, n + 1, Len(s))

Take(s, n) == SubSeq(s, 1, n)

\* String.prototype.split(sep) for a one-character separator
RECURSIVE Split(_, _)
Split(s, sep) ==
  IF \A i \in 1..Len(s) : s[i] /= sep
  THEN << s >>
  ELSE LET i == CHOOSE k \in 1..Len(s) :
                  s[k] = sep /\ \A j \in 1..(k - 1) : s[j] /= sep
       IN  << Take(s, i - 1) >> \o Split(Drop(s, i), sep)

Undefined == "undefined"

----------------------------------------------------------------------------
(* Percent-decoding *)

HexDigits == {"0", "2"}

\* the character with code 16*h1 + h2, for the hex digits of the model
HexChar(h1, h2) ==
  CASE h1 = "2" /\ h2 = "0" -> " "
    [] h1 = "2" /\ h2 = "2" -> "\""
    [] h1 = "0" /\ h2 = "0" -> "NUL"
    [] h1 = "0" /\ h2 = "2" -> "STX"

\* decodeURIComponent: ok = FALSE stands for the URIError it throws on a
\* '%' that is not followed by two hex digits
RECURSIVE decodeURIComponent(_)
decodeURIComponent(s) ==
  IF s = << >> THEN [ok |-> TRUE, v |-> << >>]
  ELSE IF Head(s) = "%"
       THEN IF Len(s) >= 3 /\ s[2] \in HexDigits /\ s[3] \in HexDigits
            THEN LET r == decodeURIComponent(Drop(s, 3))
                 IN  [ok |-> r.ok, v |-> << HexChar(s[2], s[3]) >> \o r.v]
            ELSE [ok |-> FALSE, v |-> << >>]
       ELSE LET r == decodeURIComponent(Tail(s))
            IN  [ok |-> r.ok, v |-> << Head(s) >> \o r.v]

----------------------------------------------------------------------------
(* Route patterns.  A pattern is a sequence of lexical elements:           *)
(*   [k |-> "lit",  v |-> c]     the character c                           *)
(*   [k |-> "req",  v |-> name]  :name                                     *)
(*   [k |-> "opt",  v |-> name]  :name?                                    *)
(*   [k |-> "star", v |-> "*"]   *                                         *)

Lit(c)  == [k |-> "lit", v |-> c]
Req(n)  == [k |-> "req", v |-> n]
Opt(n)  == [k |-> "opt", v |-> n]
Star    == [k |-> "star", v |-> "*"]

RECURSIVE NamesOf(_, _)
NamesOf(pattern, kind) ==
  IF pattern = << >> THEN << >>
  ELSE (IF Head(pattern).k = kind THEN << Head(pattern).v >> ELSE << >>)
       \o NamesOf(Tail(pattern), kind)

\* compilePattern.  The three replace passes run in this order:
\*   :name?  ->  ([^/]*)     names pushed first
\*   :name   ->  ([^/]+)     names pushed second
\*   *       ->  (.*)        also rewrites the '*' of every ([^/]*) produced
\*                           by the first pass, which becomes ([^/](.*))
\* The regex is kept as the sequence of its elements:
\*   "lit" c | "plus" = ([^/]+) | "optx" = ([^/](.*)) | "any" = (.*)
RegexElem(e) ==
  CASE e.k = "lit"  -> [k |-> "lit",  v |-> e.v]
    [] e.k = "req"  -> [k |-> "plus", v |-> ""]
    [] e.k = "opt"  -> [k |-> "optx", v |-> ""]
    [] e.k = "star" -> [k |-> "any",  v |-> ""]

compilePattern(pattern) ==
  [ regex      |-> [i \in 1..Len(pattern) |-> RegexElem(pattern[i])],
    paramNames |-> NamesOf(pattern, "opt") \o NamesOf(pattern, "req") ]

NoSlash(s) == \A i \in 1..Len(s) : s[i] /= "/"

\* RegExp.exec on the anchored regex: ok and the capture groups in the order
\* of their opening parentheses.  Quantifiers are greedy: the leftmost one
\* takes the longest run that lets the rest of the regex match.
RECURSIVE RegexExec(_, _)
RegexExec(regex, path) ==
  IF regex = << >>
  THEN [ok |-> (path = << >>), groups |-> << >>]
  ELSE
    LET e    == Head(regex)
        rest == Tail(regex)
    IN
    IF e.k = "lit"
    THEN IF path /= << >> /\ Head(path) = e.v
         THEN RegexExec(rest, Tail(path))
         ELSE [ok |-> FALSE, groups |-> << >>]
    ELSE
      LET lo == IF e.k = "any" THEN 0 ELSE 1
          Fits(n) ==
            CASE e.k = "plus" -> NoSlash(Take(path, n))
              [] e.k = "optx" -> path[1] /= "/"
              [] e.k = "any"  -> TRUE
          Ns == { n \in lo..Len(path) :
                    Fits(n) /\ RegexExec(rest, Drop(path, n)).ok }
      IN
      IF Ns = {} THEN [ok |-> FALSE, groups |-> << >>]
      ELSE LET n == Max(Ns)
               r == RegexExec(rest, Drop(path, n))
               own == IF e.k = "optx"
                      THEN << Take(path, n), SubSeq(path, 2, n) >>
                      ELSE << Take(path, n) >>
           IN  [ok |-> TRUE, groups |-> own \o r.groups]

\* String.prototype.toUpperCase on the method names of the model
toUpperCase(m) ==
  CASE m = "get"  -> "GET"
    [] m = "post" -> "POST"
    [] OTHER      -> m

\* RouteRegistry.register: the table after the call
register(rs, method, pattern, handlerIndex, isProtected, requiredRole) ==
  LET c == compilePattern(pattern)
  IN  Append(rs, [ method       |-> toUpperCase(method),
                   pattern      |-> pattern,
                   regex        |-> c.regex,
                   paramNames   |-> c.paramNames,
                   handlerIndex |-> handlerIndex,
                   isProtected  |-> isProtected,
                   requiredRole |-> requiredRole ])

\* a comparison of the method that forgets to upper-case the request's
RouteQualifies_CaseSensitive(rt, method, path) ==
  /\ (rt.method = method \/ rt.method = "*")
  /\ RegexExec(rt.regex, path).ok

\* does the loop of match stop at route rt ?
RouteQualifies(rt, method, path) ==
  /\ (rt.method = toUpperCase(method) \/ rt.method = "*")
  /\ RegexExec(rt.regex, path).ok

\* params built at router/index.ts:45-48; ok = FALSE if a decodeURIComponent threw
RouteParams(rt, path) ==
  LET g   == RegexExec(rt.regex, path).groups
      raw == [i \in 1..Len(rt.paramNames) |->
                IF i <= Len(g) THEN g[i] ELSE << >>]
      dec == [i \in 1..Len(rt.paramNames) |-> decodeURIComponent(raw[i])]
  IN  [ ok     |-> \A i \in 1..Len(rt.paramNames) : dec[i].ok,
        names  |-> rt.paramNames,
        values |-> [i \in 1..Len(rt.paramNames) |-> dec[i].v] ]

\* RouteRegistry.match: the loop over this.routes from index i on.
\* kind is "null", "match" or "throw" (a decodeURIComponent threw); index is
\* the route at which the loop stopped.
RECURSIVE matchFrom(_, _, _, _)
matchFrom(rs, i, method, path) ==
  IF i > Len(rs) THEN [kind |-> "null", index |-> 0, params |-> [names |-> << >>, values |-> << >>]]
  ELSE IF ~ RouteQualifies(rs[i], method, path)
       THEN matchFrom(rs, i + 1, method, path)
       ELSE LET p == RouteParams(rs[i], path)
            IN  IF p.ok
                THEN [kind |-> "match", index |-> i,
                      params |-> [names |-> p.names, values |-> p.values]]
                ELSE [kind |-> "throw", index |-> i, params |-> [names |-> << >>, values |-> << >>]]

match(rs, method, path) == matchFrom(rs, 1, method, path)

----------------------------------------------------------------------------
(* Inputs of the router *)

MaxRoutes == 2

Methods == {"GET", "get", "*"}

RequestMethods == {"GET", "get", "POST"}

\* /u/m  /u/:id  /u/:id?  /f/*  /a  /:a/:b  /*/:id
PatUM   == << Lit("/"), Lit("u"), Lit("/"), Lit("m") >>
PatUId  == << Lit("/"), Lit("u"), Lit("/"), Req("id") >>
PatUOpt == << Lit("/"), Lit("u"), Lit("/"), Opt("id") >>
PatFStar == << Lit("/"), Lit("f"), Lit("/"), Star >>
PatA    == << Lit("/"), Lit("a") >>
PatTwo  == << Lit("/"), Req("a"), Lit("/"), Req("b") >>
PatStarId == << Lit("/"), Star, Lit("/"), Req("id") >>

Patterns == {PatUM, PatUId, PatUOpt, PatFStar, PatA, PatTwo, PatStarId}

Paths == { << "/", "u", "/", "m" >>,
           << "/", "u", "/", "2" >>,
           << "/", "u" >>,
           << "/", "u", "/", "2", "%", "2", "0", "x" >>,
           << "/", "u", "/", "%", "z" >>,
           << "/", "f", "/", "m", "/", "x" >>,
           << "/", "u", "/", "2", "/", "x" >>,
           << "/", "a" >>,
           << "/", "z" >> }

HandlerIndexes == 0..1

Roles == {"user", "admin"}

NoMatch == [called |-> FALSE, method |-> "", path |-> << >>,
            res |-> [kind |-> "null", index |-> 0, params |-> [names |-> << >>, values |-> << >>]]]

----------------------------------------------------------------------------
(* The route registry used on its own *)

RouterInit ==
  /\ routes = << >>
  /\ matchResult = NoMatch

RouterRegister ==
  /\ Len(routes) < MaxRoutes
  /\ \E m \in Methods, p \in Patterns :
       routes' = register(routes, m, p, Len(routes), FALSE, Undefined)
  /\ UNCHANGED matchResult

RouterMatch ==
  /\ \E m \in RequestMethods, p \in Paths :
       matchResult' = [called |-> TRUE, method |-> m, path |-> p,
                       res |-> match(routes, m, p)]
  /\ UNCHANGED routes

RouterClear ==
  /\ routes /= << >>
  /\ routes' = << >>
  /\ UNCHANGED matchResult

RouterNext == RouterRegister \/ RouterMatch \/ RouterClear

----------------------------------------------------------------------------
(* InMemorySessionStore.  The Map is a function whose domain is the set of  *)
(* stored identifiers; every operation is given Date.now() as t and yields  *)
(* the Map after the call together with the value returned.                 *)

Put(f, k, v) == [x \in (DOMAIN f) \cup {k} |-> IF x = k THEN v ELSE f[x]]

Remove(f, k) == [x \in (DOMAIN f) \ {k} |-> f[x]]

EmptyMap == << >>

NoSession == [userId |-> "", role |-> "", claims |-> EmptyMap,
              createdAt |-> 0, expiresAt |-> 0]

\* create (session/store.ts:32-48); sid is what generateSessionId returned
SessionCreate(s, sid, data, ttlSeconds, t) ==
  Put(s, sid, [userId    |-> data.userId,
               role      |-> data.role,
               claims    |-> data.claims,
               createdAt |-> t,
               expiresAt |-> t + ttlSeconds * 1000])

\* a lookup that reports an expired record absent but leaves it in the Map
SessionGet_KeepExpired(s, sid, t) ==
  IF sid \notin DOMAIN s
  THEN [store |-> s, found |-> FALSE, session |-> NoSession]
  ELSE IF t > s[sid].expiresAt
       THEN [store |-> s, found |-> FALSE, session |-> NoSession]
       ELSE [store |-> s, found |-> TRUE, session |-> s[sid]]

\* get (session/store.ts:56-70)
SessionGet(s, sid, t) ==
  IF sid \notin DOMAIN s
  THEN [store |-> s, found |-> FALSE, session |-> NoSession]
  ELSE IF t > s[sid].expiresAt
       THEN [store |-> Remove(s, sid), found |-> FALSE, session |-> NoSession]
       ELSE [store |-> s, found |-> TRUE, session |-> s[sid]]

\* a destroy that reports success whether or not the record existed
SessionDestroy_AlwaysTrue(s, sid) ==
  [store |-> Remove(s, sid), result |-> TRUE]

\* destroy (session/store.ts:78-80)
SessionDestroy(s, sid) ==
  [store |-> Remove(s, sid), result |-> (sid \in DOMAIN s)]

\* a sweep that removes nothing
SessionCleanup_Never(s, t) == s

\* cleanup (session/store.ts:85-99)
SessionCleanup(s, t) ==
  [x \in {y \in DOMAIN s : ~ (t > s[y].expiresAt)} |-> s[x]]

\* an update that stores the partial record in place of the session
SessionUpdate_Replace(s, sid, data, t) ==
  LET g == SessionGet(s, sid, t)
  IN  IF ~ g.found THEN [store |-> g.store, result |-> FALSE]
      ELSE [store  |-> Put(g.store, sid,
                           [f \in DOMAIN g.session |->
                              IF f \in DOMAIN data THEN data[f]
                              ELSE NoSession[f]]),
            result |-> TRUE]

\* update (session/store.ts:108-122); data is a record with some of the
\* fields userId, role, claims
SessionUpdate(s, sid, data, t) ==
  LET g == SessionGet(s, sid, t)
  IN  IF ~ g.found THEN [store |-> g.store, result |-> FALSE]
      ELSE [store  |-> Put(g.store, sid,
                           [f \in DOMAIN g.session |->
                              IF f \in DOMAIN data THEN data[f]
                              ELSE g.session[f]]),
            result |-> TRUE]

\* an extend that adds the ttl to the previous expiry
SessionExtend_FromPreviousExpiry(s, sid, ttlSeconds, t) ==
  LET g == SessionGet(s, sid, t)
  IN  IF ~ g.found THEN [store |-> g.store, result |-> FALSE]
      ELSE [store  |-> Put(g.store, sid,
                           [g.session EXCEPT !.expiresAt = @ + ttlSeconds * 1000]),
            result |-> TRUE]

\* extend (session/store.ts:131-141)
SessionExtend(s, sid, ttlSeconds, t) ==
  LET g == SessionGet(s, sid, t)
  IN  IF ~ g.found THEN [store |-> g.store, result |-> FALSE]
      ELSE [store  |-> Put(g.store, sid,
                           [g.session EXCEPT !.expiresAt = t + ttlSeconds * 1000]),
            result |-> TRUE]

\* storeValue (session/store.ts:170-176)
SessionStoreValue(s, sid, key, value, t) ==
  LET g == SessionGet(s, sid, t)
  IN  IF ~ g.found THEN [store |-> g.store, result |-> FALSE]
      ELSE [store  |-> Put(g.store, sid,
                           [g.session EXCEPT !.claims = Put(@, key, value)]),
            result |-> TRUE]

\* deleteValue (session/store.ts:191-197)
SessionDeleteValue(s, sid, key, t) ==
  LET g == SessionGet(s, sid, t)
  IN  IF ~ g.found \/ key \notin DOMAIN g.session.claims
      THEN [store |-> g.store, result |-> FALSE]
      ELSE [store  |-> Put(g.store, sid,
                           [g.session EXCEPT !.claims = Remove(@, key)]),
            result |-> TRUE]

\* size (session/store.ts:146-148)
SessionSize(s) == Cardinality(DOMAIN s)

----------------------------------------------------------------------------
(* Inputs of the session store *)

MaxSessions == 2

SessionIds == 1..MaxSessions

\* ttlSeconds as a guest can pass it
Ttls == {-1, 0, 1}

TickMs == 1000

MaxNow == 2000

Users == {"u1"}

Keys == {"k"}

Vals == {"v"}

Partials == { [role |-> "admin"], [userId |-> "u2"], [claims |-> EmptyMap] }

\* arg: the partial record passed to update, the ttl passed to extend
NoOp == [op |-> "none", arg |-> 0, id |-> 0, found |-> FALSE, removed |-> FALSE,
         session |-> NoSession]

SessionInit ==
  /\ sessions = EmptyMap
  /\ now = 0
  /\ issued = {}
  /\ lastOp = NoOp
  /\ cleanupInterval = TRUE

\* generateSessionId (session/store.ts:211-213): 32 random bytes; modelled as
\* an identifier that was not returned before
generateSessionId == SessionIds \ issued

StoreCreate ==
  \E sid \in generateSessionId, u \in Users, r \in Roles, ttl \in Ttls :
    /\ sessions' = SessionCreate(sessions, sid,
                                 [userId |-> u, role |-> r, claims |-> EmptyMap],
                                 ttl, now)
    /\ issued' = issued \cup {sid}
    /\ lastOp' = [op |-> "create", arg |-> 0, id |-> sid, found |-> TRUE, removed |-> FALSE,
                  session |-> NoSession]
    /\ UNCHANGED << now, cleanupInterval >>

StoreGet ==
  \E sid \in SessionIds :
    LET g == SessionGet(sessions, sid, now)
    IN  /\ sessions' = g.store
        /\ lastOp' = [op |-> "get", arg |-> 0, id |-> sid, found |-> g.found,
                      removed |-> (sid \in DOMAIN sessions /\ sid \notin DOMAIN g.store),
                      session |-> g.session]
        /\ UNCHANGED << now, issued, cleanupInterval >>

StoreDestroy ==
  \E sid \in SessionIds :
    LET d == SessionDestroy(sessions, sid)
    IN  /\ sessions' = d.store
        /\ lastOp' = [op |-> "destroy", arg |-> 0, id |-> sid, found |-> d.result,
                      removed |-> d.result, session |-> NoSession]
        /\ UNCHANGED << now, issued, cleanupInterval >>

StoreUpdate ==
  \E sid \in SessionIds, data \in Partials :
    LET u == SessionUpdate(sessions, sid, data, now)
    IN  /\ sessions' = u.store
        /\ lastOp' = [op |-> "update", arg |-> data, id |-> sid, found |-> u.result,
                      removed |-> (sid \in DOMAIN sessions /\ sid \notin DOMAIN u.store),
                      session |-> NoSession]
        /\ UNCHANGED << now, issued, cleanupInterval >>

StoreExtend ==
  \E sid \in SessionIds, ttl \in Ttls :
    LET e == SessionExtend(sessions, sid, ttl, now)
    IN  /\ sessions' = e.store
        /\ lastOp' = [op |-> "extend", arg |-> ttl, id |-> sid, found |-> e.result,
                      removed |-> (sid \in DOMAIN sessions /\ sid \notin DOMAIN e.store),
                      session |-> NoSession]
        /\ UNCHANGED << now, issued, cleanupInterval >>

StoreStoreValue ==
  \E sid \in SessionIds, key \in Keys, value \in Vals :
    LET e == SessionStoreValue(sessions, sid, key, value, now)
    IN  /\ sessions' = e.store
        /\ lastOp' = [op |-> "storeValue", arg |-> 0, id |-> sid, found |-> e.result,
                      removed |-> (sid \in DOMAIN sessions /\ sid \notin DOMAIN e.store),
                      session |-> NoSession]
        /\ UNCHANGED << now, issued, cleanupInterval >>

StoreDeleteValue ==
  \E sid \in SessionIds, key \in Keys :
    LET e == SessionDeleteValue(sessions, sid, key, now)
    IN  /\ sessions' = e.store
        /\ lastOp' = [op |-> "deleteValue", arg |-> 0, id |-> sid, found |-> e.result,
                      removed |-> (sid \in DOMAIN sessions /\ sid \notin DOMAIN e.store),
                      session |-> NoSession]
        /\ UNCHANGED << now, issued, cleanupInterval >>

\* the setInterval callback of the constructor (session/store.ts:20-22)
StoreCleanup ==
  /\ cleanupInterval
  /\ sessions' = SessionCleanup(sessions, now)
  /\ lastOp' = [op |-> "cleanup", arg |-> 0, id |-> 0, found |-> FALSE,
                removed |-> (SessionCleanup(sessions, now) # sessions),
                  session |-> NoSession]
  /\ UNCHANGED << now, issued, cleanupInterval >>

\* time passes
ClockAdvances ==
  /\ now + TickMs <= MaxNow
  /\ now' = now + TickMs

Tick ==
  /\ ClockAdvances
  /\ lastOp' = [op |-> "tick", arg |-> 0, id |-> 0, found |-> FALSE, removed |-> FALSE,
                  session |-> NoSession]
  /\ UNCHANGED << sessions, issued, cleanupInterval >>

\* close (session/store.ts:160-165): clearInterval stops the periodic cleanup
StoreClose ==
  /\ cleanupInterval
  /\ cleanupInterval' = FALSE
  /\ lastOp' = [op |-> "close", arg |-> 0, id |-> 0, found |-> FALSE,
                removed |-> FALSE, session |-> NoSession]
  /\ UNCHANGED << sessions, now, issued >>

StoreNext ==
  \/ StoreCreate \/ StoreGet \/ StoreDestroy \/ StoreUpdate \/ StoreExtend
  \/ StoreStoreValue \/ StoreDeleteValue \/ StoreCleanup \/ Tick \/ StoreClose

----------------------------------------------------------------------------
(* Key-value calls of the session bridge (bridge/session.ts:318-425).  The  *)
(* session identifier 0 stands for a request context without a session.    *)

\* getValue (session/store.ts:181-186); absent = undefined
SessionGetValue(s, sid, key, t) ==
  LET g == SessionGet(s, sid, t)
  IN  IF ~ g.found \/ key \notin DOMAIN g.session.claims
      THEN [store |-> g.store, absent |-> TRUE, value |-> ""]
      ELSE [store |-> g.store, absent |-> FALSE, value |-> g.session.claims[key]]

\* hasKey (session/store.ts:202-206)
SessionHasKey(s, sid, key, t) ==
  LET g == SessionGet(s, sid, t)
  IN  [store |-> g.store, result |-> g.found /\ key \in DOMAIN g.session.claims]

\* the fallback of _session_store (session.ts:337-343): get returns the record
\* the Map holds, so the assignment to session.claims changes the stored one
FallbackStore(s, sid, key, value, t) ==
  LET g == SessionGet(s, sid, t)
  IN  IF g.found
      THEN [store |-> Put(g.store, sid,
                          [g.session EXCEPT !.claims = Put(@, key, value)]),
            ret |-> 1]
      ELSE [store |-> g.store, ret |-> 0]

\* the fallback of _session_get_value (session.ts:365-371)
FallbackGetValue(s, sid, key, t) ==
  LET g == SessionGet(s, sid, t)
  IN  IF g.found /\ key \in DOMAIN g.session.claims
      THEN [store |-> g.store, ret |-> g.session.claims[key]]
      ELSE [store |-> g.store, ret |-> ""]

\* a fallback that deletes without testing that the key is there
FallbackDelete_NoKeyTest(s, sid, key, t) ==
  LET g == SessionGet(s, sid, t)
  IN  IF g.found
      THEN [store |-> Put(g.store, sid,
                          [g.session EXCEPT !.claims = Remove(@, key)]),
            ret |-> 1]
      ELSE [store |-> g.store, ret |-> 0]

\* the fallback of _session_delete (session.ts:390-396)
FallbackDelete(s, sid, key, t) ==
  LET g == SessionGet(s, sid, t)
  IN  IF g.found /\ key \in DOMAIN g.session.claims
      THEN [store |-> Put(g.store, sid,
                          [g.session EXCEPT !.claims = Remove(@, key)]),
            ret |-> 1]
      ELSE [store |-> g.store, ret |-> 0]

\* the fallback of _session_has_key (session.ts:415-420)
FallbackHasKey(s, sid, key, t) ==
  LET g == SessionGet(s, sid, t)
  IN  IF g.found
      THEN [store |-> g.store, ret |-> IF key \in DOMAIN g.session.claims THEN 1 ELSE 0]
      ELSE [store |-> g.store, ret |-> 0]

\* _session_store (session.ts:318-344); methods: the store has storeValue
session_store(s, methods, sid, key, value, t) ==
  IF sid = 0 THEN [store |-> s, ret |-> 0]
  ELSE IF methods
    THEN LET e == SessionStoreValue(s, sid, key, value, t)
         IN  [store |-> e.store, ret |-> IF e.result THEN 1 ELSE 0]
  ELSE FallbackStore(s, sid, key, value, t)

\* _session_get_value (session.ts:351-372): value || '' for the store's
\* getValue
session_get_value(s, methods, sid, key, t) ==
  IF sid = 0 THEN [store |-> s, ret |-> ""]
  ELSE IF methods
    THEN LET e == SessionGetValue(s, sid, key, t)
         IN  [store |-> e.store,
              ret |-> IF e.absent \/ e.value = "" THEN "" ELSE e.value]
  ELSE FallbackGetValue(s, sid, key, t)

\* _session_delete (session.ts:378-397)
session_delete(s, methods, sid, key, t) ==
  IF sid = 0 THEN [store |-> s, ret |-> 0]
  ELSE IF methods
    THEN LET e == SessionDeleteValue(s, sid, key, t)
         IN  [store |-> e.store, ret |-> IF e.result THEN 1 ELSE 0]
  ELSE FallbackDelete(s, sid, key, t)

\* _session_has_key (session.ts:404-421)
session_has_key(s, methods, sid, key, t) ==
  IF sid = 0 THEN [store |-> s, ret |-> 0]
  ELSE IF methods
    THEN LET e == SessionHasKey(s, sid, key, t)
         IN  [store |-> e.store, ret |-> IF e.result THEN 1 ELSE 0]
  ELSE FallbackHasKey(s, sid, key, t)

\* values a guest stores: the empty string and a non-empty one
BridgeVals == {"", "v"}

\* ctx.sessionId: none, or an identifier from the request's cookie
CtxSessionIds == {0} \cup SessionIds

NoBridge == [fn |-> "none", sid |-> 0, key |-> "", value |-> "", num |-> 0, str |-> ""]

\* kinds: whether the configured store implements the optional methods
BridgeInit(kinds) ==
  /\ valueMethods \in kinds
  /\ lastBridge = NoBridge

SessionStoreCall ==
  \E sid \in CtxSessionIds, key \in Keys, value \in BridgeVals :
    LET e == session_store(sessions, valueMethods, sid, key, value, now)
    IN  /\ sessions' = e.store
        /\ lastBridge' = [fn |-> "_session_store", sid |-> sid, key |-> key,
                          value |-> value, num |-> e.ret, str |-> ""]
        /\ UNCHANGED << now, issued, lastOp, cleanupInterval, valueMethods >>

SessionGetValueCall ==
  \E sid \in CtxSessionIds, key \in Keys :
    LET e == session_get_value(sessions, valueMethods, sid, key, now)
    IN  /\ sessions' = e.store
        /\ lastBridge' = [fn |-> "_session_get_value", sid |-> sid, key |-> key,
                          value |-> "", num |-> 0, str |-> e.ret]
        /\ UNCHANGED << now, issued, lastOp, cleanupInterval, valueMethods >>

SessionDeleteCall ==
  \E sid \in CtxSessionIds, key \in Keys :
    LET e == session_delete(sessions, valueMethods, sid, key, now)
    IN  /\ sessions' = e.store
        /\ lastBridge' = [fn |-> "_session_delete", sid |-> sid, key |-> key,
                          value |-> "", num |-> e.ret, str |-> ""]
        /\ UNCHANGED << now, issued, lastOp, cleanupInterval, valueMethods >>

SessionHasKeyCall ==
  \E sid \in CtxSessionIds, key \in Keys :
    LET e == session_has_key(sessions, valueMethods, sid, key, now)
    IN  /\ sessions' = e.store
        /\ lastBridge' = [fn |-> "_session_has_key", sid |-> sid, key |-> key,
                          value |-> "", num |-> e.ret, str |-> ""]
        /\ UNCHANGED << now, issued, lastOp, cleanupInterval, valueMethods >>

BridgeNext ==
  \/ (StoreCreate \/ Tick) /\ UNCHANGED bridgeVars
  \/ SessionStoreCall \/ SessionGetValueCall
  \/ SessionDeleteCall \/ SessionHasKeyCall

----------------------------------------------------------------------------
(* Allocation tracker (bridge/memory-runtime.ts) *)

MaxPtrs == 2

\* addresses the guest allocator can return; 0 is the null pointer
Ptrs == 1..MaxPtrs

MaxDepth == 2

MaxAllocs == 2

MaxRef == 2

RefCount(rc, ptr) == IF ptr \in DOMAIN rc THEN rc[ptr] ELSE 0

\* the body shared by mem_release (lines 73-88) and the loop of mem_scope_pop
\* (lines 108-120): the map after releasing ptr and the calls of free made
ReleaseOne(rc, ptr, free) ==
  IF RefCount(rc, ptr) <= 1
  THEN [rc |-> Remove(rc, ptr), frees |-> IF free THEN << ptr >> ELSE << >>]
  ELSE [rc |-> Put(rc, ptr, RefCount(rc, ptr) - 1), frees |-> << >>]

\* mem_release (memory-runtime.ts:69-89)
mem_release(rc, ptr, free) ==
  IF ptr = 0 THEN [rc |-> rc, frees |-> << >>]
  ELSE ReleaseOne(rc, ptr, free)

\* a loop that drops and frees every allocation of the scope whatever its count
RECURSIVE ReleaseAll_IgnoreCounts(_, _, _)
ReleaseAll_IgnoreCounts(rc, allocations, free) ==
  IF allocations = << >> THEN [rc |-> rc, frees |-> << >>]
  ELSE LET b == ReleaseAll_IgnoreCounts(Remove(rc, Head(allocations)),
                                        Tail(allocations), free)
       IN  [rc |-> b.rc,
            frees |-> (IF free THEN << Head(allocations) >> ELSE << >>) \o b.frees]

\* the for loop of mem_scope_pop over scope.allocations
RECURSIVE ReleaseAll(_, _, _)
ReleaseAll(rc, allocations, free) ==
  IF allocations = << >> THEN [rc |-> rc, frees |-> << >>]
  ELSE LET a == ReleaseOne(rc, Head(allocations), free)
           b == ReleaseAll(a.rc, Tail(allocations), free)
       IN  [rc |-> b.rc, frees |-> a.frees \o b.frees]

\* mem_retain (memory-runtime.ts:59-64)
mem_retain(rc, ptr) ==
  IF ptr = 0 THEN rc ELSE Put(rc, ptr, RefCount(rc, ptr) + 1)

SeqToSet(q) == { q[i] : i \in 1..Len(q) }

RECURSIVE TotalAllocs(_)
TotalAllocs(stack) ==
  IF stack = << >> THEN 0 ELSE Len(Head(stack)) + TotalAllocs(Tail(stack))

NoMem == [op |-> "none", ptr |-> 0, tracked |-> FALSE, scope |-> << >>]

\* who tracks what after a call made through instance self left the map rc:
\* a pointer the call started to track (or allocated anew) is self's, the
\* scopes are those given
Owners(rc, scopes, fresh, self) ==
  [scopes |-> scopes,
   ptrs |-> [ptr \in DOMAIN rc |->
               IF ptr \in DOMAIN trackedBy.ptrs /\ ptr \notin fresh
               THEN trackedBy.ptrs[ptr] ELSE self]]

MemInit(frees) ==
  /\ refCounts = EmptyMap
  /\ scopeStack = << >>
  /\ heap = {}
  /\ freeCalls = << >>
  /\ lastMem = NoMem
  /\ hasFree \in frees
  /\ freed = {}
  /\ trackedBy = [scopes |-> << >>, ptrs |-> EmptyMap]

\* mem_alloc (memory-runtime.ts:30-54) with size > 0; the guest's malloc
\* returns an address it does not hold allocated
MemAlloc ==
  /\ TotalAllocs(scopeStack) < MaxAllocs
  /\ \E ptr \in Ptrs \ heap :
       /\ heap' = heap \cup {ptr}
       /\ scopeStack' = IF scopeStack = << >> THEN scopeStack
                        ELSE [scopeStack EXCEPT ![Len(scopeStack)] = Append(@, ptr)]
       /\ refCounts' = Put(refCounts, ptr, 1)
       /\ lastMem' = [op |-> "alloc", ptr |-> ptr, tracked |-> ptr \in DOMAIN refCounts,
                    scope |-> << >>]
       /\ freed' = freed \ {ptr}
       /\ trackedBy' = Owners(Put(refCounts, ptr, 1), trackedBy.scopes, {ptr}, running)
  /\ freeCalls' = << >>
  /\ UNCHANGED hasFree

\* mem_alloc with size <= 0, or the guest's malloc throwing: returns 0
MemAllocFail ==
  /\ lastMem' = [op |-> "allocfail", ptr |-> 0, tracked |-> FALSE, scope |-> << >>]
  /\ freeCalls' = << >>
  /\ UNCHANGED << refCounts, scopeStack, heap, hasFree, freed, trackedBy >>

MemRetain ==
  \E ptr \in {0} \cup Ptrs :
    /\ RefCount(refCounts, ptr) < MaxRef
    /\ refCounts' = mem_retain(refCounts, ptr)
    /\ lastMem' = [op |-> "retain", ptr |-> ptr, tracked |-> ptr \in DOMAIN refCounts,
                    scope |-> << >>]
    /\ freeCalls' = << >>
    /\ trackedBy' = Owners(mem_retain(refCounts, ptr), trackedBy.scopes, {}, running)
    /\ UNCHANGED << scopeStack, heap, hasFree, freed >>

MemRelease ==
  \E ptr \in {0} \cup Ptrs :
    LET r == mem_release(refCounts, ptr, hasFree)
    IN  /\ refCounts' = r.rc
        /\ freeCalls' = r.frees
        /\ heap' = heap \ SeqToSet(r.frees)
        /\ freed' = freed \cup SeqToSet(r.frees)
        /\ trackedBy' = Owners(r.rc, trackedBy.scopes, {}, running)
        /\ lastMem' = [op |-> "release", ptr |-> ptr, tracked |-> ptr \in DOMAIN refCounts,
                    scope |-> << >>]
        /\ UNCHANGED << scopeStack, hasFree >>

\* mem_scope_push (memory-runtime.ts:94-96)
MemScopePush ==
  /\ Len(scopeStack) < MaxDepth
  /\ scopeStack' = Append(scopeStack, << >>)
  /\ lastMem' = [op |-> "push", ptr |-> 0, tracked |-> FALSE, scope |-> << >>]
  /\ freeCalls' = << >>
  /\ trackedBy' = [trackedBy EXCEPT !.scopes = Append(@, running)]
  /\ UNCHANGED << refCounts, heap, hasFree, freed >>

\* mem_scope_pop (memory-runtime.ts:101-123)
MemScopePop ==
  /\ IF scopeStack = << >>
     THEN /\ freeCalls' = << >>
          /\ UNCHANGED << scopeStack, refCounts, heap, freed, trackedBy >>
     ELSE LET r == ReleaseAll(refCounts, scopeStack[Len(scopeStack)], hasFree)
          IN  /\ scopeStack' = Take(scopeStack, Len(scopeStack) - 1)
              /\ refCounts' = r.rc
              /\ freeCalls' = r.frees
              /\ heap' = heap \ SeqToSet(r.frees)
              /\ freed' = freed \cup SeqToSet(r.frees)
              /\ trackedBy' = Owners(r.rc, Take(trackedBy.scopes,
                                                Len(trackedBy.scopes) - 1), {}, running)
  /\ lastMem' = [op |-> "pop", ptr |-> 0, tracked |-> FALSE,
                 scope |-> IF scopeStack = << >> THEN << >>
                           ELSE scopeStack[Len(scopeStack)]]
  /\ UNCHANGED hasFree

MemNext ==
  \/ MemAlloc \/ MemAllocFail \/ MemRetain \/ MemRelease
  \/ MemScopePush \/ MemScopePop

----------------------------------------------------------------------------
(* Marshaller (wasm/memory.ts).  A string is the sequence of its UTF-16 code *)
(* units; the code units used here are all below 65536, so a surrogate is   *)
(* always a lone one.                                                        *)

\* size in bytes of the guest's linear memory (memory.buffer.byteLength)
MemSize == 10

MaxStrLen == 2

\* guest malloc calls made by the marshaller in one behaviour
MaxMallocs == 1

\* code units: 'a', e-acute (two bytes in UTF-8), U+FEFF (three bytes),
\* and the high surrogate U+D83D
Chars == {97, 233, 65279, 55357}

Strings == UNION { [1..n -> Chars] : n \in 0..MaxStrLen }

IsSurrogate(cp) == cp >= 55296 /\ cp <= 57343

\* the UTF-8 bytes of one code point below 65536
EncodeCodePoint(cp) ==
  IF cp < 128 THEN << cp >>
  ELSE IF cp < 2048 THEN << 192 + (cp \div 64), 128 + (cp % 64) >>
  ELSE << 224 + (cp \div 4096), 128 + ((cp \div 64) % 64), 128 + (cp % 64) >>

\* new TextEncoder().encode(str): a lone surrogate is encoded as U+FFFD
RECURSIVE TextEncode(_)
TextEncode(str) ==
  IF str = << >> THEN << >>
  ELSE EncodeCodePoint(IF IsSurrogate(Head(str)) THEN 65533 ELSE Head(str))
         \o TextEncode(Tail(str))

IsContinuation(b) == b >= 128 /\ b <= 191

\* the UTF-8 decoder: a well-formed one-, two- or three-byte sequence gives
\* its code point; any other byte gives U+FFFD and the decoder moves on
RECURSIVE Utf8Decode(_)
Utf8Decode(bytes) ==
  IF bytes = << >> THEN << >>
  ELSE LET b1 == bytes[1]
           two == /\ b1 >= 194 /\ b1 <= 223 /\ Len(bytes) >= 2
                  /\ IsContinuation(bytes[2])
           cp3 == (b1 - 224) * 4096 + (bytes[2] - 128) * 64 + (bytes[3] - 128)
           three == /\ b1 >= 224 /\ b1 <= 239 /\ Len(bytes) >= 3
                    /\ IsContinuation(bytes[2]) /\ IsContinuation(bytes[3])
                    /\ cp3 >= 2048 /\ ~IsSurrogate(cp3)
       IN  IF b1 < 128 THEN << b1 >> \o Utf8Decode(Tail(bytes))
           ELSE IF two
             THEN << (b1 - 192) * 64 + (bytes[2] - 128) >> \o Utf8Decode(Drop(bytes, 2))
           ELSE IF three THEN << cp3 >> \o Utf8Decode(Drop(bytes, 3))
           ELSE << 65533 >> \o Utf8Decode(Tail(bytes))

\* new TextDecoder('utf-8').decode(bytes): ignoreBOM is false by default, so a
\* byte order mark at the start of the input is dropped from the output
TextDecode(bytes) ==
  LET str == Utf8Decode(bytes)
  IN  IF str # << >> /\ str[1] = 65279 THEN Tail(str) ELSE str

\* the len bytes of mem starting at offset ptr
Bytes(mem, ptr, len) == SubSeq(mem, ptr + 1, ptr + len)

\* DataView.getUint32(ptr, true).  Values of 2^31 and more are represented by
\* 2^31 - 1: the result is only compared with 0 and with sizes below MemSize
getUint32(mem, ptr) ==
  IF mem[ptr + 4] >= 128 THEN 2147483647
  ELSE mem[ptr + 1] + 256 * mem[ptr + 2] + 65536 * mem[ptr + 3]
         + 16777216 * mem[ptr + 4]

\* the four bytes DataView.setUint32(ptr, v, true) stores
Uint32Bytes(v) ==
  << v % 256, (v \div 256) % 256, (v \div 65536) % 256, (v \div 16777216) % 256 >>

\* mem with bytes stored from offset ptr on
Store(mem, ptr, bytes) ==
  [o \in 1..Len(mem) |->
     IF o > ptr /\ o <= ptr + Len(bytes) THEN bytes[o - ptr] ELSE mem[o]]

\* a read that clamps the range to the buffer instead of failing
readRawString_Clamped(mem, ptr, len) ==
  IF ptr = 0 \/ len = 0 THEN [out |-> "ok", value |-> << >>, reads |-> {}]
  ELSE LET n == IF ptr >= Len(mem) THEN 0
                ELSE IF ptr + len > Len(mem) THEN Len(mem) - ptr ELSE len
       IN  [out |-> "ok", value |-> TextDecode(Bytes(mem, ptr, n)),
            reads |-> { o \in 0..(Len(mem) - 1) : o >= ptr /\ o < ptr + n }]

\* readRawString (wasm/memory.ts:35-44): out = "throw" when it throws; reads =
\* the offsets of the bytes it reads
readRawString(mem, ptr, len) ==
  IF ptr = 0 \/ len = 0 THEN [out |-> "ok", value |-> << >>, reads |-> {}]
  ELSE IF ptr + len > Len(mem)
    THEN [out |-> "throw", value |-> << >>, reads |-> {}]
  ELSE [out |-> "ok", value |-> TextDecode(Bytes(mem, ptr, len)),
        reads |-> ptr..(ptr + len - 1)]

\* readLengthPrefixedString (wasm/memory.ts:11-24); DataView.getUint32 throws
\* a RangeError when the four bytes at ptr are not all inside the buffer
readLengthPrefixedString(mem, ptr) ==
  IF ptr = 0 THEN [out |-> "ok", value |-> << >>, reads |-> {}]
  ELSE IF ptr + 4 > Len(mem)
    THEN [out |-> "throw", value |-> << >>, reads |-> {}]
  ELSE LET len == getUint32(mem, ptr)
       IN  IF len = 0
             THEN [out |-> "ok", value |-> << >>, reads |-> ptr..(ptr + 3)]
           ELSE IF len > Len(mem) - ptr - 4
             THEN [out |-> "throw", value |-> << >>, reads |-> ptr..(ptr + 3)]
           ELSE [out |-> "ok", value |-> TextDecode(Bytes(mem, ptr + 4, len)),
                 reads |-> ptr..(ptr + 3 + len)]

\* writeLengthPrefixedString (wasm/memory.ts:55-71), ptr being the value the
\* guest's malloc returned for 4 + bytes.length: setUint32 and
\* Uint8Array.set throw a RangeError when their range leaves the buffer, the
\* second after the prefix has been stored
writeLengthPrefixedString(mem, str, ptr) ==
  LET bytes == TextEncode(str)
      prefixed == Store(mem, ptr, Uint32Bytes(Len(bytes)))
  IN  IF ptr = 0 THEN [out |-> "throw", ptr |-> 0, mem |-> mem]
      ELSE IF ptr + 4 > Len(mem) THEN [out |-> "throw", ptr |-> 0, mem |-> mem]
      ELSE IF ptr + 4 + Len(bytes) > Len(mem)
        THEN [out |-> "throw", ptr |-> 0, mem |-> prefixed]
      ELSE [out |-> "ok", ptr |-> ptr, mem |-> Store(prefixed, ptr + 4, bytes)]

NoIo == [op |-> "none", ptr |-> 0, len |-> 0, str |-> << >>, out |-> "ok",
         value |-> << >>, reads |-> {}]

\* a WebAssembly.Memory starts zero-filled
MarshalInit ==
  /\ memory = [o \in 1..MemSize |-> 0]
  /\ mallocCalls = 0
  /\ lastIo = NoIo

\* a capability reads a (ptr, len) argument pair handed over by the guest
ReadRaw ==
  \E ptr \in 0..(MemSize + 1), len \in 0..(MemSize + 1) :
    LET r == readRawString(memory, ptr, len)
    IN  /\ lastIo' = [op |-> "readRaw", ptr |-> ptr, len |-> len, str |-> << >>,
                      out |-> r.out, value |-> r.value, reads |-> r.reads]
        /\ UNCHANGED << memory, mallocCalls >>

\* the host reads a string the guest addresses by a single pointer
ReadLengthPrefixed ==
  \E ptr \in 0..(MemSize + 1) :
    LET r == readLengthPrefixedString(memory, ptr)
    IN  /\ lastIo' = [op |-> "readLP", ptr |-> ptr, len |-> 0, str |-> << >>,
                      out |-> r.out, value |-> r.value, reads |-> r.reads]
        /\ UNCHANGED << memory, mallocCalls >>

\* the host writes a string into guest memory; the guest's malloc may return
\* any address, 0 included
WriteLengthPrefixed ==
  /\ mallocCalls < MaxMallocs
  /\ \E str \in Strings, ptr \in 0..MemSize :
       LET w == writeLengthPrefixedString(memory, str, ptr)
       IN  /\ memory' = w.mem
           /\ lastIo' = [op |-> "write", ptr |-> ptr, len |-> Len(TextEncode(str)),
                         str |-> str, out |-> w.out, value |-> << >>, reads |-> {}]
  /\ mallocCalls' = mallocCalls + 1

MarshalNext == ReadRaw \/ ReadLengthPrefixed \/ WriteLengthPrefixed

----------------------------------------------------------------------------
(* File bridge (bridge/file.ts).  A path is the sequence of its characters. *)

\* the segments of p joined by '/', each preceded by '/'
RECURSIVE Join(_)
Join(segs) ==
  IF segs = << >> THEN << >>
  ELSE << "/" >> \o Head(segs) \o Join(Tail(segs))

\* path.resolve's normalisation: the stack of segments after walking segs
RECURSIVE Walk(_, _)
Walk(stack, segs) ==
  IF segs = << >> THEN stack
  ELSE LET g == Head(segs)
       IN  IF g = << >> \/ g = << "." >> THEN Walk(stack, Tail(segs))
           ELSE IF g = << ".", "." >>
             THEN Walk(Take(stack, Max({0, Len(stack) - 1})), Tail(segs))
           ELSE Walk(Append(stack, g), Tail(segs))

\* path.resolve(root, filePath) on POSIX, root being absolute
PathResolve(root, filePath) ==
  LET base == IF filePath # << >> /\ filePath[1] = "/" THEN << >>
              ELSE Walk(<< >>, Split(root, "/"))
      segs == Walk(base, Split(filePath, "/"))
  IN  IF segs = << >> THEN << "/" >> ELSE Join(segs)

\* String.prototype.startsWith
StartsWith(str, prefix) ==
  Len(str) >= Len(prefix) /\ Take(str, Len(prefix)) = prefix

\* resolveSandboxPath (bridge/file.ts:23-32): ok = FALSE stands for null
resolveSandboxPath(root, filePath) ==
  LET resolved == PathResolve(root, filePath)
  IN  [ok |-> StartsWith(resolved, root), resolved |-> resolved]

\* /r and /e
SandboxRoots == { << "/", "r" >>, << "/", "e" >> }

\* x  .  ..  ../e  /e  /r/x  ../rx/e  x/../../rx
GuestPaths == { << "x" >>,
                << "." >>,
                << ".", "." >>,
                << ".", ".", "/", "e" >>,
                << "/", "e" >>,
                << "/", "r", "/", "x" >>,
                << ".", ".", "/", "r", "x", "/", "e" >>,
                << "x", "/", ".", ".", "/", ".", ".", "/", "r", "x" >> }

\* capabilities taking one path, and the value each returns on failure
FileOps == {"file_read", "file_write", "file_delete", "file_list_dir", "file_mkdir"}

NoFile == [op |-> "none", root |-> << >>, paths |-> << >>, resolved |-> << >>,
           result |-> "none", touched |-> {}]

FileInit ==
  /\ sandboxRoot = << "/", "r" >>
  /\ lastFile = NoFile

\* setSandboxRoot (bridge/file.ts:15-17)
SetSandboxRoot ==
  /\ \E root \in SandboxRoots : sandboxRoot' = PathResolve(<< "/" >>, root)
  /\ UNCHANGED lastFile

\* file_read, file_write, file_delete, file_list_dir, file_mkdir, ...: the
\* path is resolved; a null result returns the failure value without calling
\* fs; otherwise fs is called on the resolved path and either succeeds or
\* throws, the catch returning the failure value
FileCall ==
  /\ \E op \in FileOps, filePath \in GuestPaths, fsThrows \in BOOLEAN :
       LET r == resolveSandboxPath(sandboxRoot, filePath)
       IN  lastFile' =
             [op |-> op, root |-> sandboxRoot, paths |-> << filePath >>,
              resolved |-> << r.resolved >>,
              result |-> IF r.ok /\ ~ fsThrows THEN "done" ELSE "failure",
              touched |-> IF r.ok THEN {r.resolved} ELSE {}]
  /\ UNCHANGED sandboxRoot

\* file_copy and file_rename (bridge/file.ts:335-387): both paths must resolve
FileCopy ==
  /\ \E op \in {"file_copy", "file_rename"}, src \in GuestPaths,
        dest \in GuestPaths, fsThrows \in BOOLEAN :
       LET rs == resolveSandboxPath(sandboxRoot, src)
           rd == resolveSandboxPath(sandboxRoot, dest)
       IN  lastFile' =
             [op |-> op, root |-> sandboxRoot, paths |-> << src, dest >>,
              resolved |-> << rs.resolved, rd.resolved >>,
              result |-> IF rs.ok /\ rd.ok /\ ~ fsThrows THEN "done" ELSE "failure",
              touched |-> IF rs.ok /\ rd.ok THEN {rs.resolved, rd.resolved} ELSE {}]
  /\ UNCHANGED sandboxRoot

FileNext == SetSandboxRoot \/ FileCall \/ FileCopy

----------------------------------------------------------------------------
(* parseUrl / parseQueryString (router/index.ts:114-143) *)

\* parseQueryString: ok = FALSE if a decodeURIComponent threw; query is the
\* sequence of decoded [key, value] pairs in the order they are assigned
RECURSIVE parsePairs(_)
parsePairs(pairs) ==
  IF pairs = << >> THEN [ok |-> TRUE, query |-> << >>]
  ELSE LET kv    == Split(Head(pairs), "=")
           key   == kv[1]
           value == IF Len(kv) >= 2 THEN kv[2] ELSE << >>
           rest  == parsePairs(Tail(pairs))
       IN  IF key = << >> THEN rest
           ELSE LET k == decodeURIComponent(key)
                    v == decodeURIComponent(value)
                IN  IF k.ok /\ v.ok
                    THEN [ok |-> rest.ok,
                          query |-> << [key |-> k.v, value |-> v.v] >> \o rest.query]
                    ELSE [ok |-> FALSE, query |-> << >>]

parseQueryString(queryString) ==
  IF queryString = << >> THEN [ok |-> TRUE, query |-> << >>]
  ELSE LET q == IF Head(queryString) = "?" THEN Tail(queryString) ELSE queryString
       IN  parsePairs(Split(q, "&"))

parseUrl(url) ==
  LET parts     == Split(url, "?")
      pathPart  == parts[1]
      queryPart == IF Len(parts) >= 2 THEN parts[2] ELSE << >>
      q         == parseQueryString(queryPart)
  IN  [ok    |-> q.ok,
       path  |-> IF pathPart = << >> THEN << "/" >> ELSE pathPart,
       query |-> q.query]

----------------------------------------------------------------------------
(* CleanNodeServer: startup and the life of one request (server.ts) *)

MaxReqs == 2

Reqs == 1..MaxReqs

\* capability calls one handler invocation makes at most
MaxCalls == 1

\* the handler exports __route_handler_N the guest module has
ExportedHandlers == {0}

\* request targets:  /a   /u/2   /z   /u/%z   /a?q=%
Targets == { << "/", "a" >>,
             << "/", "u", "/", "2" >>,
             << "/", "z" >>,
             << "/", "u", "/", "%", "z" >>,
             << "/", "a", "?", "q", "=", "%" >> }

\* /a  /u/2
AuthTargets == { << "/", "a" >>, << "/", "u", "/", "2" >> }

DbTargets == { << "/", "u", "/", "2" >> }

\* the session_id cookie of a request; 0: no cookie
Cookies == {0} \cup SessionIds

\* what the guest's start() may register
PublicRoutes == { [pattern |-> PatUId, handlerIndex |-> 0],
                  [pattern |-> PatUId, handlerIndex |-> 1] }

ProtectedRoutes == { [pattern |-> PatA, handlerIndex |-> 0, role |-> Undefined],
                     [pattern |-> PatA, handlerIndex |-> 0, role |-> "admin"] }

NoReq == [pc |-> "idle", target |-> << >>, cookie |-> 0, routeIdx |-> 0,
          inst |-> 0, status |-> 0, message |-> "", body |-> "",
          error |-> "", errorAt |-> "", invoked |-> FALSE, ncalls |-> 0,
          afterError |-> {}]

\* createDefaultResponse + createWasmState (wasm/state.ts:15-56) for the
\* request r (0: the startup instance)
NewInstance(r) ==
  [owner |-> r, ctxOf |-> 0, status |-> 200, body |-> "", cookie |-> 0,
   usedBy |-> {}]

MsgCreate  == "Failed to initialize request handler"

MsgNoHandler == "Handler function not found"

ServerInit(dbs) ==
  /\ phase = "boot"
  /\ reqs = [r \in Reqs |-> NoReq]
  /\ instances = << >>
  /\ running = 0
  /\ lastQueryResult = [op |-> 0, v |-> ""]
  /\ lastExecuteResult = [op |-> 0, v |-> 0]
  /\ dbOps = << >>
  /\ lastCall = [fn |-> "none", by |-> 0, op |-> 0, ret |-> [op |-> 0, v |-> ""]]
  /\ hasDatabase \in dbs

\* no transaction call has been made and the driver holds no transaction
TxInit ==
  /\ txOps = << >>
  /\ transactions = {}

Init ==
  /\ RouterInit /\ SessionInit /\ MemInit({TRUE}) /\ MarshalInit /\ FileInit
  /\ TxInit /\ BridgeInit({TRUE}) /\ ServerInit({FALSE})

DbInit ==
  /\ RouterInit /\ SessionInit /\ MemInit({TRUE}) /\ MarshalInit /\ FileInit
  /\ TxInit /\ BridgeInit({TRUE}) /\ ServerInit(BOOLEAN)

MemSpecInit ==
  /\ RouterInit /\ SessionInit /\ MemInit(BOOLEAN) /\ MarshalInit /\ FileInit
  /\ TxInit /\ BridgeInit({TRUE}) /\ ServerInit({FALSE})

\* a module-level "current state" instead of the closure: the instance
\* created last
getState_Latest(i) == Len(instances)

\* the state the closure passed to createBridgeImports returns
\* (server.ts:125-130): the instance the imports were created for
getState(i) == i

\* the request on whose behalf instance i runs guest code (0: startup)
OwnerOf(i) == instances[i].owner

\* an instance is running guest code and may make one more capability call
CanCall ==
  /\ running /= 0
  /\ OwnerOf(running) /= 0 => reqs[OwnerOf(running)].ncalls < MaxCalls

Called ==
  IF OwnerOf(running) = 0 THEN reqs
  ELSE [reqs EXCEPT ![OwnerOf(running)].ncalls = @ + 1]

\* initialize (server.ts:84-100) up to the call of start()
Initialize ==
  /\ phase = "boot"
  /\ phase' = "starting"
  /\ instances' = << NewInstance(0) >>
  /\ running' = 1
  /\ UNCHANGED << reqs, lastQueryResult, lastExecuteResult, dbOps, lastCall,
                  hasDatabase, routerVars, sessionVars, memVars, otherVars, txVars >>

\* start() returns; app.all('*', handleRequest) (server.ts:103)
StartReturns ==
  /\ phase = "starting"
  /\ phase' = "serving"
  /\ running' = 0
  /\ UNCHANGED << reqs, instances, lastQueryResult, lastExecuteResult, dbOps,
                  lastCall, hasDatabase, routerVars, sessionVars, memVars, otherVars, txVars >>

\* _http_route (bridge/http-server.ts:52-67)
HttpRoute ==
  /\ CanCall
  /\ Len(routes) < MaxRoutes
  /\ \E c \in PublicRoutes :
       routes' = register(routes, "GET", c.pattern, c.handlerIndex, FALSE, Undefined)
  /\ reqs' = Called
  /\ UNCHANGED << matchResult, phase, instances, running, lastQueryResult,
                  lastExecuteResult, dbOps, lastCall, hasDatabase,
                  sessionVars, memVars, marshalVars, cleanupInterval, fileVars, txVars, bridgeVars >>

\* _http_route_protected (bridge/http-server.ts:72-94)
HttpRouteProtected ==
  /\ CanCall
  /\ Len(routes) < MaxRoutes
  /\ \E c \in ProtectedRoutes :
       routes' = register(routes, "GET", c.pattern, c.handlerIndex, TRUE, c.role)
  /\ reqs' = Called
  /\ UNCHANGED << matchResult, phase, instances, running, lastQueryResult,
                  lastExecuteResult, dbOps, lastCall, hasDatabase,
                  sessionVars, memVars, marshalVars, cleanupInterval, fileVars, txVars, bridgeVars >>

\* handleRequest up to the await (server.ts:147-166)
Receive(r, targets, cookies) ==
  /\ phase = "serving" /\ running = 0
  /\ reqs[r].pc = "idle"
  /\ r > 1 => reqs[r - 1].pc /= "idle"
  /\ \E target \in targets, cookie \in cookies :
       LET u == parseUrl(target)
           m == match(routes, "GET", u.path)
           q == [reqs[r] EXCEPT !.target = target, !.cookie = cookie,
                                !.afterError = {x \in Reqs : reqs[x].errorAt /= ""}]
       IN  reqs' = [reqs EXCEPT ![r] =
             IF ~ u.ok
             THEN [q EXCEPT !.pc = "escaped", !.error = "URI malformed",
                            !.errorAt = "parse"]
             ELSE IF m.kind = "throw"
             THEN [q EXCEPT !.pc = "escaped", !.error = "URI malformed",
                            !.errorAt = "match"]
             ELSE IF m.kind = "null"
             THEN [q EXCEPT !.pc = "done", !.status = 404,
                            !.message = "No route matches"]
             ELSE [q EXCEPT !.pc = "creating", !.routeIdx = m.index]]
  /\ UNCHANGED << phase, instances, running, lastQueryResult, lastExecuteResult,
                  dbOps, lastCall, hasDatabase, routerVars, sessionVars, memVars, otherVars, txVars >>

\* createWasmState resolves (server.ts:116-142)
CreateInstance(r) ==
  /\ running = 0
  /\ reqs[r].pc = "creating"
  /\ instances' = Append(instances, NewInstance(r))
  /\ reqs' = [reqs EXCEPT ![r].pc = "created", ![r].inst = Len(instances) + 1]
  /\ UNCHANGED << phase, running, lastQueryResult, lastExecuteResult, dbOps,
                  lastCall, hasDatabase, routerVars, sessionVars, memVars, otherVars, txVars >>

\* createWasmState rejects; the catch at server.ts:167-174
CreateInstanceFails(r) ==
  /\ running = 0
  /\ reqs[r].pc = "creating"
  /\ reqs' = [reqs EXCEPT ![r].pc = "done", ![r].status = 500,
                          ![r].message = MsgCreate,
                          ![r].error = "instantiate failed",
                          ![r].errorAt = "create"]
  /\ UNCHANGED << phase, instances, running, lastQueryResult, lastExecuteResult,
                  dbOps, lastCall, hasDatabase, routerVars, sessionVars, memVars, otherVars, txVars >>

\* an authentication check that forgets the required role
Authenticate_NoRoleCheck(route, g) ==
  IF ~ route.isProtected THEN "ok"
  ELSE IF ~ g.found THEN "401"
  ELSE "ok"

\* the authentication check of a protected route (server.ts:192-212); g is
\* what sessionStore.get returned for the cookie ("not found" without cookie)
Authenticate(route, g) ==
  IF ~ route.isProtected THEN "ok"
  ELSE IF ~ g.found THEN "401"
  ELSE IF route.requiredRole /= Undefined
          /\ g.session.role /= route.requiredRole THEN "403"
  ELSE "ok"

\* handleRequest after the await: context, authentication, handler lookup and
\* the call of the handler export (server.ts:176-224)
Resume(r) ==
  /\ running = 0
  /\ reqs[r].pc = "created"
  /\ LET q     == reqs[r]
         route == routes[q.routeIdx]
         g     == IF q.cookie /= 0 THEN SessionGet(sessions, q.cookie, now)
                  ELSE [store |-> sessions, found |-> FALSE, session |-> NoSession]
         auth  == Authenticate(route, g)
     IN
     /\ instances' = [instances EXCEPT ![q.inst] =
                        [@ EXCEPT !.ctxOf = r, !.status = 200, !.body = "",
                                  !.cookie = 0]]
     /\ sessions' = IF route.isProtected THEN g.store ELSE sessions
     /\ IF auth = "401"
        THEN /\ reqs' = [reqs EXCEPT ![r].pc = "done", ![r].status = 401,
                                     ![r].message = "Authentication required"]
             /\ UNCHANGED running
        ELSE IF auth = "403"
        THEN /\ reqs' = [reqs EXCEPT ![r].pc = "done", ![r].status = 403,
                                     ![r].message = "Role required"]
             /\ UNCHANGED running
        ELSE IF route.handlerIndex \notin ExportedHandlers
        THEN /\ reqs' = [reqs EXCEPT ![r].pc = "done", ![r].status = 500,
                                     ![r].message = MsgNoHandler,
                                     ![r].error = MsgNoHandler,
                                     ![r].errorAt = "handler"]
             /\ UNCHANGED running
        ELSE /\ reqs' = [reqs EXCEPT ![r].pc = "executing", ![r].invoked = TRUE]
             /\ running' = q.inst
  /\ UNCHANGED << phase, lastQueryResult, lastExecuteResult, dbOps, lastCall,
                  hasDatabase, routerVars, now, issued, lastOp, memVars, otherVars, txVars >>

\* _http_set_body (bridge/http-server.ts:122-125)
HttpSetBody ==
  /\ phase = "serving" /\ CanCall
  /\ instances' = [instances EXCEPT ![getState(running)] =
                     [@ EXCEPT !.body = "explicit",
                               !.usedBy = @ \cup {OwnerOf(running)}]]
  /\ reqs' = Called
  /\ UNCHANGED << phase, running, lastQueryResult, lastExecuteResult, dbOps,
                  lastCall, hasDatabase, routerVars, sessionVars, memVars, otherVars, txVars >>

\* _req_path (createRequestBridge): reads the request context of the state
ReqPath ==
  /\ phase = "serving" /\ CanCall
  /\ instances[getState(running)].ctxOf /= 0
  /\ instances' = [instances EXCEPT ![getState(running)].usedBy =
                     @ \cup {OwnerOf(running)}]
  /\ reqs' = Called
  /\ UNCHANGED << phase, running, lastQueryResult, lastExecuteResult, dbOps,
                  lastCall, hasDatabase, routerVars, sessionVars, memVars, otherVars, txVars >>

\* _session_create_with_ttl (bridge/session.ts:69-104)
SessionCreateWithTtl ==
  /\ phase = "serving" /\ CanCall
  /\ \E sid \in generateSessionId, u \in Users, role \in Roles, ttl \in Ttls :
       /\ sessions' = SessionCreate(sessions, sid,
                                    [userId |-> u, role |-> role, claims |-> EmptyMap],
                                    ttl, now)
       /\ issued' = issued \cup {sid}
       /\ instances' = [instances EXCEPT ![getState(running)] =
                          [@ EXCEPT !.cookie = sid,
                                    !.usedBy = @ \cup {OwnerOf(running)}]]
  /\ reqs' = Called
  /\ UNCHANGED << phase, running, lastQueryResult, lastExecuteResult, dbOps,
                  lastCall, hasDatabase, routerVars, now, lastOp, memVars, otherVars, txVars >>

\* the handler export returns resultPtr; the response is assembled and sent
\* (server.ts:224-266).  ret: "null" = 0, "empty" = pointer to a length prefix
\* of 0, "str" = pointer to a non-empty length-prefixed string, "bad" =
\* pointer whose length prefix is out of range
HandlerReturns(r) ==
  /\ reqs[r].pc = "executing" /\ running = reqs[r].inst
  /\ \E ret \in {"null", "empty", "str", "bad"} :
       LET st == instances[reqs[r].inst]
       IN  reqs' = [reqs EXCEPT ![r] =
             IF ret = "bad"
             THEN [@ EXCEPT !.pc = "done", !.status = 500,
                            !.message = "Invalid string length",
                            !.error = "Invalid string length",
                            !.errorAt = "handler"]
             ELSE [@ EXCEPT !.pc = "done", !.status = st.status,
                            !.body = IF ret = "str" THEN "returned" ELSE st.body]]
  /\ running' = 0
  /\ UNCHANGED << phase, instances, lastQueryResult, lastExecuteResult, dbOps,
                  lastCall, hasDatabase, routerVars, sessionVars, memVars, otherVars, txVars >>

\* the call of the handler without the try / catch around it
HandlerTraps_Uncaught(r) ==
  /\ reqs[r].pc = "executing" /\ running = reqs[r].inst
  /\ reqs' = [reqs EXCEPT ![r].pc = "escaped",
                          ![r].error = "unreachable",
                          ![r].errorAt = "handler"]
  /\ running' = 0
  /\ UNCHANGED << phase, instances, lastQueryResult, lastExecuteResult, dbOps,
                  lastCall, hasDatabase, routerVars, sessionVars, memVars, otherVars, txVars >>

\* the handler export traps; the catch at server.ts:267-276
HandlerTraps(r) ==
  /\ reqs[r].pc = "executing" /\ running = reqs[r].inst
  /\ reqs' = [reqs EXCEPT ![r].pc = "done", ![r].status = 500,
                          ![r].message = "unreachable",
                          ![r].error = "unreachable",
                          ![r].errorAt = "handler"]
  /\ running' = 0
  /\ UNCHANGED << phase, instances, lastQueryResult, lastExecuteResult, dbOps,
                  lastCall, hasDatabase, routerVars, sessionVars, memVars, otherVars, txVars >>

----------------------------------------------------------------------------
(* Database bridge (bridge/database.ts).  A value handed to the guest is    *)
(* [op |-> the operation that produced it (0: none), v |-> the payload].    *)

Sqls == {"q1"}

DefaultRows == [op |-> 0, v |-> "empty rows"]

NoDatabase == [op |-> 0, v |-> "No database configured"]

\* _db_query (bridge/database.ts:26-68)
DbQuery ==
  /\ phase = "serving" /\ CanCall
  /\ \E sql \in Sqls :
       IF ~ hasDatabase
       THEN /\ lastCall' = [fn |-> "_db_query", by |-> OwnerOf(running), op |-> 0,
                            ret |-> NoDatabase]
            /\ UNCHANGED dbOps
       ELSE /\ dbOps' = Append(dbOps, [kind |-> "query", sql |-> sql,
                                       by |-> OwnerOf(running), state |-> "pending"])
            /\ lastCall' = [fn |-> "_db_query", by |-> OwnerOf(running),
                            op |-> Len(dbOps) + 1,
                            ret |-> IF lastQueryResult.v /= "" THEN lastQueryResult
                                    ELSE DefaultRows]
  /\ reqs' = Called
  /\ UNCHANGED << phase, instances, running, lastQueryResult, lastExecuteResult,
                  hasDatabase, routerVars, sessionVars, memVars, otherVars, txVars >>

\* _db_execute (bridge/database.ts:117-144)
DbExecute ==
  /\ phase = "serving" /\ CanCall
  /\ \E sql \in Sqls :
       IF ~ hasDatabase
       THEN /\ lastCall' = [fn |-> "_db_execute", by |-> OwnerOf(running), op |-> 0,
                            ret |-> [op |-> 0, v |-> -1]]
            /\ UNCHANGED dbOps
       ELSE /\ dbOps' = Append(dbOps, [kind |-> "execute", sql |-> sql,
                                       by |-> OwnerOf(running), state |-> "pending"])
            /\ lastCall' = [fn |-> "_db_execute", by |-> OwnerOf(running),
                            op |-> Len(dbOps) + 1, ret |-> lastExecuteResult]
  /\ reqs' = Called
  /\ UNCHANGED << phase, instances, running, lastQueryResult, lastExecuteResult,
                  hasDatabase, routerVars, sessionVars, memVars, otherVars, txVars >>

\* _db_query_result (bridge/database.ts:104-107) and _db_execute_result
\* (bridge/database.ts:176-178): the module's last stored result
DbResult ==
  /\ phase = "serving" /\ CanCall
  /\ \E fn \in {"_db_query_result", "_db_execute_result"} :
       lastCall' = [fn |-> fn, by |-> OwnerOf(running), op |-> 0,
                    ret |-> IF fn = "_db_query_result" THEN lastQueryResult
                            ELSE lastExecuteResult]
  /\ reqs' = Called
  /\ UNCHANGED << phase, instances, running, lastQueryResult, lastExecuteResult,
                  dbOps, hasDatabase, routerVars, sessionVars, memVars, otherVars,
                  txVars >>

\* the promise of operation k settles: the then / catch callbacks
\* (bridge/database.ts:51-60 and 136-141)
DbSettle(k) ==
  /\ running = 0
  /\ k \in 1..Len(dbOps) /\ dbOps[k].state = "pending"
  /\ \E ok \in BOOLEAN :
       /\ dbOps' = [dbOps EXCEPT ![k].state = IF ok THEN "ok" ELSE "err"]
       /\ IF dbOps[k].kind = "query"
          THEN /\ lastQueryResult' = [op |-> k, v |-> IF ok THEN "rows" ELSE "DB_ERROR"]
               /\ UNCHANGED lastExecuteResult
          ELSE /\ lastExecuteResult' = [op |-> k, v |-> IF ok THEN 1 ELSE -1]
               /\ UNCHANGED lastQueryResult
  /\ UNCHANGED << phase, reqs, instances, running, lastCall, hasDatabase,
                  routerVars, sessionVars, memVars, otherVars, txVars >>

----------------------------------------------------------------------------
(* Transactions (bridge/database.ts:185-248, database/postgres.ts:50-94).   *)
(* A transaction identifier is a positive number; 0 stands for the empty    *)
(* string.                                                                   *)

\* identifiers a guest passes to _db_commit / _db_rollback
TxIds == 0..(MaxReqs * MaxCalls)

\* _db_begin (bridge/database.ts:185-203): txId is still '' when it is
\* written for the guest; the then callback assigns it later
DbBegin ==
  /\ phase = "serving" /\ CanCall
  /\ txOps' = Append(txOps, [kind |-> "begin", by |-> OwnerOf(running), arg |-> 0,
                             ret |-> 0, id |-> 0,
                             state |-> IF hasDatabase THEN "pending" ELSE "nodb"])
  /\ reqs' = Called
  /\ UNCHANGED << phase, instances, running, lastQueryResult, lastExecuteResult,
                  dbOps, lastCall, hasDatabase, transactions, routerVars,
                  sessionVars, memVars, otherVars >>

\* _db_commit and _db_rollback (bridge/database.ts:210-248)
DbEnd ==
  /\ phase = "serving" /\ CanCall
  /\ \E kind \in {"commit", "rollback"}, txId \in TxIds :
       txOps' = Append(txOps, [kind |-> kind, by |-> OwnerOf(running), arg |-> txId,
                               ret |-> IF hasDatabase THEN 0 ELSE -1, id |-> 0,
                               state |-> IF hasDatabase THEN "pending" ELSE "nodb"])
  /\ reqs' = Called
  /\ UNCHANGED << phase, instances, running, lastQueryResult, lastExecuteResult,
                  dbOps, lastCall, hasDatabase, transactions, routerVars,
                  sessionVars, memVars, otherVars >>

\* ++this.txCounter: the transactions the driver has begun so far, plus one
NextTxId ==
  Cardinality({ k \in 1..Len(txOps) :
                  txOps[k].kind = "begin" /\ txOps[k].state = "ok" }) + 1

\* the driver's promise for call k settles: beginTransaction resolves with a
\* new identifier or rejects; commit / rollback reject for an identifier the
\* driver does not hold, else run the statement and drop the transaction
TxSettle(k) ==
  /\ running = 0
  /\ k \in 1..Len(txOps) /\ txOps[k].state = "pending"
  /\ \E ok \in BOOLEAN :
       IF txOps[k].kind = "begin"
       THEN IF ok
            THEN /\ txOps' = [txOps EXCEPT ![k].state = "ok", ![k].id = NextTxId]
                 /\ transactions' = transactions \cup {NextTxId}
            ELSE /\ txOps' = [txOps EXCEPT ![k].state = "err"]
                 /\ UNCHANGED transactions
       ELSE IF txOps[k].arg \in transactions
            THEN /\ txOps' = [txOps EXCEPT ![k].state = IF ok THEN "ok" ELSE "err"]
                 /\ transactions' = transactions \ {txOps[k].arg}
            ELSE /\ txOps' = [txOps EXCEPT ![k].state = "err"]
                 /\ UNCHANGED transactions
  /\ UNCHANGED << serverVars, routerVars, sessionVars, memVars, otherVars >>

----------------------------------------------------------------------------
(* Specifications *)

Startup == Initialize \/ StartReturns \/ HttpRoute \/ HttpRouteProtected

Lifecycle(targets, cookies) ==
  \E r \in Reqs :
    \/ Receive(r, targets, cookies) \/ CreateInstance(r) \/ CreateInstanceFails(r)
    \/ Resume(r) \/ HandlerReturns(r) \/ HandlerTraps(r)

ServerTick ==
  /\ running = 0
  /\ ClockAdvances
  /\ UNCHANGED << sessions, issued, lastOp, routerVars, memVars, otherVars, txVars, serverVars >>

Next ==
  \/ Startup
  \/ Lifecycle(Targets, {0})
  \/ HttpSetBody \/ ReqPath

Spec == Init /\ [][Next]_vars

AuthNext ==
  \/ Startup
  \/ Lifecycle(AuthTargets, Cookies)
  \/ SessionCreateWithTtl
  \/ ServerTick

AuthSpec == Init /\ [][AuthNext]_vars

DbNext ==
  \/ Startup
  \/ Lifecycle(DbTargets, {0})
  \/ DbQuery \/ DbExecute \/ DbResult
  \/ \E k \in 1..(MaxReqs * MaxCalls) : DbSettle(k)

DbSpec == DbInit /\ [][DbNext]_vars

\* the RangeError / Error thrown inside an import leaves the import, unwinds
\* the guest frames and the handler call, and is caught at server.ts:267-276
Unwound(r, msg) ==
  [reqs EXCEPT ![r] = [@ EXCEPT !.pc = "done", !.status = 500, !.message = msg,
                                !.error = msg, !.errorAt = "capability"]]

\* (ptr, len) pairs a guest passes: null, inside the memory, reaching past it
ArgPtrs == {0, 1, MemSize}

ArgLens == {0, 1, MemSize + 1}

\* _http_set_body(ptr, len) (bridge/http-server.ts:122-125) with the read of
\* its argument (readString, part_005:271-273): no try / catch around readString
HttpSetBodyRead ==
  /\ phase = "serving" /\ CanCall /\ OwnerOf(running) # 0
  /\ \E ptr \in ArgPtrs, len \in ArgLens :
       LET r == readRawString(memory, ptr, len)
       IN  /\ lastIo' = [op |-> "_http_set_body", ptr |-> ptr, len |-> len,
                         str |-> << >>, out |-> r.out, value |-> r.value,
                         reads |-> r.reads]
           /\ IF r.out = "throw"
              THEN /\ reqs' = Unwound(OwnerOf(running), "RangeError")
                   /\ running' = 0
                   /\ UNCHANGED instances
              ELSE /\ reqs' = Called
                   /\ instances' = [instances EXCEPT ![getState(running)] =
                                      [@ EXCEPT !.body = "explicit",
                                                !.usedBy = @ \cup {OwnerOf(running)}]]
                   /\ UNCHANGED running
  /\ UNCHANGED << phase, lastQueryResult, lastExecuteResult, dbOps, lastCall,
                  hasDatabase, routerVars, sessionVars, memVars, memory, mallocCalls,
                  cleanupInterval, fileVars, txVars, bridgeVars >>

\* addresses the guest's malloc returns for the result: null, room for the
\* string, room for the prefix only, no room
ResultPtrs == {0, 1, MemSize - 4, MemSize}

\* _req_path() (bridge/list.ts:160-164) with the write of its result
\* (writeString, part_005:287-289): no try / catch around writeString
ReqPathWrite ==
  /\ phase = "serving" /\ CanCall /\ OwnerOf(running) # 0
  /\ instances[getState(running)].ctxOf /= 0
  /\ \E ptr \in ResultPtrs :
       LET w == writeLengthPrefixedString(memory, << 97 >>, ptr)
       IN  /\ memory' = w.mem
           /\ lastIo' = [op |-> "_req_path", ptr |-> ptr, len |-> 1,
                         str |-> << 97 >>, out |-> w.out, value |-> << >>,
                         reads |-> {}]
           /\ IF w.out = "throw"
              THEN /\ reqs' = Unwound(OwnerOf(running),
                                     IF ptr = 0 THEN "WASM malloc returned null pointer"
                                     ELSE "RangeError")
                   /\ running' = 0
                   /\ UNCHANGED instances
              ELSE /\ reqs' = Called
                   /\ instances' = [instances EXCEPT ![getState(running)].usedBy =
                                      @ \cup {OwnerOf(running)}]
                   /\ UNCHANGED running
  /\ mallocCalls' = mallocCalls + 1
  /\ UNCHANGED << phase, lastQueryResult, lastExecuteResult, dbOps, lastCall,
                  hasDatabase, routerVars, sessionVars, memVars, cleanupInterval,
                  fileVars, txVars, bridgeVars >>

FaultNext ==
  \/ Startup
  \/ Lifecycle(Targets, {0})
  \/ HttpSetBodyRead \/ ReqPathWrite

FaultSpec == Init /\ [][FaultNext]_vars

\* a memory-runtime import called by the guest code of the running instance
\* (bridge/index.ts: every instance's imports share the module's tracker)
GuestMem ==
  /\ phase = "serving" /\ CanCall
  /\ MemNext
  /\ reqs' = Called
  /\ UNCHANGED << phase, instances, running, lastQueryResult, lastExecuteResult,
                  dbOps, lastCall, hasDatabase, routerVars, sessionVars,
                  otherVars, txVars >>

TrackerNext ==
  \/ Startup
  \/ Lifecycle(DbTargets, {0})
  \/ GuestMem

TrackerSpec == MemSpecInit /\ [][TrackerNext]_vars

BridgeSpecInit ==
  /\ RouterInit /\ SessionInit /\ MemInit({TRUE}) /\ MarshalInit /\ FileInit
  /\ TxInit /\ BridgeInit(BOOLEAN) /\ ServerInit({FALSE})

BridgeSpec ==
  BridgeSpecInit /\ [][BridgeNext /\ UNCHANGED << routerVars, memVars, marshalVars,
                                                 serverVars, fileVars, txVars >>]_vars

TxNext ==
  \/ Startup
  \/ Lifecycle(DbTargets, {0})
  \/ DbBegin \/ DbEnd
  \/ \E k \in 1..(MaxReqs * MaxCalls) : TxSettle(k)

TxSpec == DbInit /\ [][TxNext]_vars

StoreSpec ==
  Init /\ [][StoreNext /\ UNCHANGED << routerVars, memVars, marshalVars, serverVars,
                                     fileVars, txVars, bridgeVars >>]_vars

MemSpec == MemSpecInit /\ [][MemNext /\ UNCHANGED << routerVars, sessionVars, serverVars, otherVars, txVars >>]_vars

MarshalSpec ==
  Init /\ [][MarshalNext /\ UNCHANGED << routerVars, sessionVars, memVars, serverVars,
                                       cleanupInterval, fileVars, txVars, bridgeVars >>]_vars

\* the timer set by the constructor keeps firing while it is set: Node runs
\* an interval callback whenever the event loop is free of synchronous code
FairStoreSpec ==
  /\ StoreSpec
  /\ WF_vars(StoreCleanup /\ UNCHANGED << routerVars, memVars, marshalVars, serverVars,
                                        fileVars, txVars, bridgeVars >>)

FileSpec ==
  Init /\ [][FileNext /\ UNCHANGED << routerVars, sessionVars, memVars, marshalVars,
                                    cleanupInterval, serverVars, txVars,
                                    bridgeVars >>]_vars

RouterSpec == Init /\ [][RouterNext /\ UNCHANGED << sessionVars, memVars, otherVars, txVars, serverVars >>]_vars

----------------------------------------------------------------------------
(* Claims about the route registry *)

\* the routes of table rs that qualify for a request: method equal (ignoring
\* case) or '*', and the pattern's regex matches the whole path
Qualifying(rs, method, path) ==
  { i \in 1..Len(rs) :
      /\ rs[i].method \in {toUpperCase(method), "*"}
      /\ RegexExec(rs[i].regex, path).ok }

\* C1: match stops at the first route, in registration order, whose method
\* equals the request method (case-insensitively) or is '*' and whose pattern
\* matches the whole path; it returns null only if no route qualifies.
C1_FirstMatchWins ==
  [][(routes' = routes /\ matchResult'.called) =>
       LET Q == Qualifying(routes, matchResult'.method, matchResult'.path)
           m == matchResult'.res
       IN  /\ (m.kind = "null") <=> (Q = {})
           /\ Q /= {} => (m.index \in Q /\ \A j \in Q : m.index <= j)
    ]_vars

\* /u/m registered before /u/:id, GET /u/m asked: both qualify, the first won
C1_Witness ==
  /\ matchResult.called
  /\ Len(routes) = 2
  /\ routes[1].pattern = PatUM /\ routes[2].pattern = PatUId
  /\ matchResult.path = << "/", "u", "/", "m" >>
  /\ Qualifying(routes, matchResult.method, matchResult.path) = {1, 2}
  /\ matchResult.res.kind = "match"
  /\ routes[matchResult.res.index].handlerIndex = 0

----------------------------------------------------------------------------
(* Claims about the request lifecycle *)

RouteOf(r) == routes[reqs[r].routeIdx]

\* is the session named by cookie c stored and not expired ?
LiveSession(c) ==
  /\ c /= 0
  /\ c \in DOMAIN sessions
  /\ ~ (now > sessions[c].expiresAt)

\* C2: on a protected route the handler is invoked only if the session_id
\* cookie names a stored, unexpired session whose role equals the route's
\* requiredRole (when it has one); without such a session the response is
\* 401, with a differing role 403, and the handler is not invoked.
C2_ProtectedNeedsSession ==
  [][\A r \in Reqs :
       (reqs[r].pc = "created" /\ reqs'[r].pc /= "created"
          /\ RouteOf(r).isProtected) =>
         LET live   == LiveSession(reqs[r].cookie)
             roleOk == \/ RouteOf(r).requiredRole = Undefined
                       \/ sessions[reqs[r].cookie].role = RouteOf(r).requiredRole
         IN  /\ reqs'[r].invoked => (live /\ roleOk)
             /\ ~ live => (reqs'[r].status = 401 /\ ~ reqs'[r].invoked)
             /\ (live /\ ~ roleOk) => (reqs'[r].status = 403 /\ ~ reqs'[r].invoked)
    ]_vars

\* a live session with role "user" met a route that requires "admin": 403
C2_Witness ==
  \E r \in Reqs :
    /\ reqs[r].pc = "done" /\ reqs[r].status = 403 /\ ~ reqs[r].invoked
    /\ RouteOf(r).isProtected /\ RouteOf(r).requiredRole = "admin"
    /\ LiveSession(reqs[r].cookie)
    /\ sessions[reqs[r].cookie].role = "user"

\* C3: every request that reaches instantiation has an instance of its own;
\* capability calls use only the context and envelope of the caller's
\* instance; no instance serves more than one request.
C3_InstanceIsolation ==
  /\ \A r1, r2 \in Reqs :
       (r1 /= r2 /\ reqs[r1].inst /= 0 /\ reqs[r2].inst /= 0)
         => reqs[r1].inst /= reqs[r2].inst
  /\ \A r \in Reqs : reqs[r].inst /= 0 => instances[reqs[r].inst].owner = r
  /\ \A i \in 1..Len(instances) :
       /\ instances[i].usedBy \subseteq {instances[i].owner}
       /\ instances[i].ctxOf \in {0, instances[i].owner}

\* two requests in flight at once, each with its instance, one of which has
\* made a capability call
C3_Witness ==
  \E r1, r2 \in Reqs :
    /\ r1 /= r2
    /\ reqs[r1].pc = "executing" /\ reqs[r2].pc = "created"
    /\ instances[reqs[r1].inst].usedBy = {r1}
    /\ instances[reqs[r2].inst].usedBy = {}

\* C4: once startup has completed the route table never changes.
C4_RoutesFrozen == [][phase = "serving" => routes' = routes]_vars

\* C6 as stated: a failure to create the instance or to run the handler is
\* answered with status 500 carrying the error's message.
C6_ErrorMessageSurfaced ==
  \A r \in Reqs :
    reqs[r].errorAt \in {"create", "handler"} =>
      /\ reqs[r].pc = "done"
      /\ reqs[r].status = 500
      /\ reqs[r].message = reqs[r].error

\* C6 amended: such a failure is answered with status 500 and does not
\* leave handleRequest as an exception; the message is the error's message
\* when the handler invocation failed and the fixed text "Failed to initialize
\* request handler" when the instance could not be created; requests received
\* afterwards are served with instances of their own.
C6_Errors500 ==
  /\ \A r \in Reqs :
       reqs[r].errorAt \in {"create", "handler"} =>
         /\ reqs[r].pc = "done"
         /\ reqs[r].status = 500
         /\ reqs[r].message = IF reqs[r].errorAt = "create" THEN MsgCreate
                              ELSE reqs[r].error
  /\ \A r2 \in Reqs : \A r \in reqs[r2].afterError :
       /\ phase = "serving"
       /\ reqs[r2].inst /= 0 => reqs[r2].inst /= reqs[r].inst

\* a request received after a handler had trapped was served normally
C6_Witness ==
  \E r, r2 \in Reqs :
    /\ r \in reqs[r2].afterError
    /\ reqs[r].errorAt = "handler" /\ reqs[r].status = 500
    /\ reqs[r2].pc = "done" /\ reqs[r2].status = 200 /\ reqs[r2].invoked

\* C7: no request leaves handleRequest without a response having been sent.
C7_AlwaysAnswered ==
  \A r \in Reqs : reqs[r].pc \in {"done", "escaped"} => reqs[r].status /= 0

----------------------------------------------------------------------------
(* Claims about the database bridge *)

\* C5: the value _db_query / _db_execute returns is the outcome of the
\* operation that very call issued.
C5_ReturnsOwnOutcome ==
  (lastCall.fn \in {"_db_query", "_db_execute"} /\ lastCall.op /= 0)
    => lastCall.ret.op = lastCall.op

----------------------------------------------------------------------------
(* Claims about the session store *)

\* C8: get returns absent for an unknown identifier and for an expired
\* record, which it deletes (size drops by one); for a live record it
\* returns the record and leaves the store unchanged.
C8_GetSemantics ==
  [][lastOp'.op = "get" =>
       LET sid == lastOp'.id
       IN  IF sid \notin DOMAIN sessions
           THEN ~ lastOp'.found /\ sessions' = sessions
           ELSE IF now > sessions[sid].expiresAt
           THEN /\ ~ lastOp'.found
                /\ sid \notin DOMAIN sessions'
                /\ SessionSize(sessions') = SessionSize(sessions) - 1
                /\ \A x \in DOMAIN sessions' :
                     x \in DOMAIN sessions /\ sessions'[x] = sessions[x]
           ELSE /\ lastOp'.found
                /\ lastOp'.session = sessions[sid]
                /\ sessions' = sessions
    ]_vars

\* a lookup found an expired record and removed it
C8_Witness ==
  /\ lastOp.op = "get"
  /\ lastOp.removed /\ ~ lastOp.found
  /\ lastOp.id \notin DOMAIN sessions

\* C9: every stored record has expiresAt > createdAt.
C9_ExpiresAfterCreated ==
  \A sid \in DOMAIN sessions : sessions[sid].expiresAt > sessions[sid].createdAt

----------------------------------------------------------------------------
(* Claims about the allocation tracker *)

\* C10: mem_release of a pointer that is not tracked is a no-op: free is not
\* invoked, the refcount map and the scope stack are unchanged.
C10_ReleaseUntrackedNoOp ==
  [][(lastMem'.op = "release" /\ ~ lastMem'.tracked) =>
       /\ freeCalls' = << >>
       /\ refCounts' = refCounts
       /\ scopeStack' = scopeStack
    ]_vars

\* number of times ptr is recorded in the allocations of a scope
RECURSIVE Occurrences(_, _)
Occurrences(q, ptr) ==
  IF q = << >> THEN 0
  ELSE (IF Head(q) = ptr THEN 1 ELSE 0) + Occurrences(Tail(q), ptr)

\* sub is obtained from q by deleting elements (the order of q is kept)
RECURSIVE IsSubsequence(_, _)
IsSubsequence(sub, q) ==
  IF sub = << >> THEN TRUE
  ELSE IF q = << >> THEN FALSE
  ELSE IF Head(sub) = Head(q) THEN IsSubsequence(Tail(sub), Tail(q))
  ELSE IsSubsequence(sub, Tail(q))

\* C11: mem_scope_pop on a non-empty stack removes the top scope and leaves
\* the enclosing scopes as they were; the count of every pointer is lowered by
\* one for each record of it in the popped scope (pointers not recorded there
\* keep their count, a pointer retained elsewhere survives with its count
\* reduced by one); free is invoked only for pointers of the popped scope whose
\* count has reached zero, for each of those when the guest exports free, and
\* in the order the scope recorded them.
C11_PopReleasesScope ==
  [][(lastMem'.op = "pop" /\ scopeStack # << >>) =>
       LET top == scopeStack[Len(scopeStack)]
       IN  /\ lastMem'.scope = top
           /\ scopeStack' = Take(scopeStack, Len(scopeStack) - 1)
           /\ \A ptr \in Ptrs :
                 /\ RefCount(refCounts', ptr) =
                      Max({0, RefCount(refCounts, ptr) - Occurrences(top, ptr)})
                 /\ ptr \in DOMAIN refCounts' => refCounts'[ptr] >= 1
           /\ IsSubsequence(freeCalls', top)
           /\ \A ptr \in SeqToSet(freeCalls') : RefCount(refCounts', ptr) = 0
           /\ hasFree =>
                 \A ptr \in SeqToSet(top) :
                   RefCount(refCounts', ptr) = 0 => ptr \in SeqToSet(freeCalls')
  ]_vars

\* a nested scope holding two allocations, the first retained, has been
\* popped: the retained pointer survives with count 1, the other was freed,
\* and the enclosing scope is still open
C11_Witness ==
  /\ lastMem.op = "pop"
  /\ lastMem.scope = << 1, 2 >>
  /\ freeCalls = << 2 >>
  /\ RefCount(refCounts, 1) = 1
  /\ Len(scopeStack) = 1

----------------------------------------------------------------------------
(* Claims about the marshaller *)

\* C12, as stated: every readRawString call with ptr + len beyond the memory
\* size throws, ptr = 0 with an oversized len included, and reads no byte
\* outside the memory.
C12_OutOfRangeAlwaysFails ==
  (lastIo.op = "readRaw" /\ lastIo.ptr + lastIo.len > MemSize) =>
     /\ lastIo.out = "throw"
     /\ lastIo.reads \subseteq 0..(MemSize - 1)

\* C12, amended: a readRawString call with ptr and len both non-zero and
\* ptr + len beyond the memory size throws; a call with ptr = 0 or len = 0
\* returns the empty string whatever the other argument is; a call that
\* returns with both non-zero has read exactly the bytes ptr .. ptr + len - 1
\* and returns their decoding; no call reads an offset outside the memory.
C12_OutOfRangeFailsUnlessNull ==
  [][lastIo'.op = "readRaw" =>
       LET io == lastIo'
           inRange == io.ptr + io.len <= MemSize
       IN  /\ (io.ptr # 0 /\ io.len # 0 /\ ~inRange) =>
                 (io.out = "throw" /\ io.reads = {})
           /\ (io.ptr = 0 \/ io.len = 0) =>
                 (io.out = "ok" /\ io.value = << >> /\ io.reads = {})
           /\ (io.ptr # 0 /\ io.len # 0 /\ inRange) =>
                 /\ io.out = "ok"
                 /\ io.reads = io.ptr..(io.ptr + io.len - 1)
                 /\ io.value = TextDecode(Bytes(memory, io.ptr, io.len))
           /\ io.reads \subseteq 0..(MemSize - 1)
  ]_vars

\* a read whose range starts inside the memory and ends outside it has thrown
C12_Witness ==
  /\ lastIo.op = "readRaw"
  /\ lastIo.ptr > 0 /\ lastIo.ptr < MemSize /\ lastIo.len > 0
  /\ lastIo.ptr + lastIo.len > MemSize
  /\ lastIo.out = "throw"

\* C13: a string written by writeLengthPrefixedString into a block inside the
\* memory is read back unchanged by readLengthPrefixedString through the
\* returned pointer; the four bytes at the pointer hold the UTF-8 byte length,
\* least significant byte first; a null pointer from the allocator makes the
\* write fail and stores no byte.
C13_RoundTrip ==
  [][/\ (lastIo'.op = "write" /\ lastIo'.ptr = 0) =>
          (lastIo'.out = "throw" /\ memory' = memory)
     /\ (lastIo'.op = "write" /\ lastIo'.out = "ok") =>
          Bytes(memory', lastIo'.ptr, 4) = Uint32Bytes(Len(TextEncode(lastIo'.str)))
     /\ ( /\ lastIo.op = "write" /\ lastIo.out = "ok"
          /\ lastIo'.op = "readLP" /\ lastIo'.ptr = lastIo.ptr ) =>
          (lastIo'.out = "ok" /\ lastIo'.value = lastIo.str)
  ]_vars

----------------------------------------------------------------------------
(* Claims about the response body *)

\* C14: when the handler has returned and the response was sent from the
\* instance's response state, a body the handler set through a capability
\* call is the body sent: the string at the returned pointer is adopted only
\* if no body was set explicitly.
C14_ExplicitBodyKept ==
  \A r \in Reqs :
    ( /\ reqs[r].pc = "done" /\ reqs[r].invoked /\ reqs[r].errorAt = ""
      /\ instances[reqs[r].inst].body = "explicit" ) =>
      reqs[r].body = "explicit"

----------------------------------------------------------------------------
(* Claims about route patterns *)

\* the value match binds to name in its result res
Bound(res, name) ==
  LET i == CHOOSE j \in 1..Len(res.params.names) : res.params.names[j] = name
  IN  res.params.values[i]

IsBound(res, name) == \E j \in 1..Len(res.params.names) : res.params.names[j] = name

\* the segments of a path: what lies between its '/' characters
Segments(path) == Tail(Split(path, "/"))

Decoded(s) == decodeURIComponent(s).v

\* the route at which a match stopped
Matched(res) == routes[res.index]

\* C15: a route whose pattern is /f/* matches every path that starts with /f/,
\* whatever number of segments follows, and the remainder of the path after
\* /f/ is one of the values of the returned params.
C15_WildcardExposesRemainder ==
  [][(routes' = routes /\ matchResult'.called) =>
       LET m == matchResult'
           rest == Drop(m.path, 3)
       IN  ( /\ routes # << >>
             /\ routes[1].pattern = PatFStar
             /\ routes[1].method \in {toUpperCase(m.method), "*"}
             /\ Len(m.path) >= 3 /\ Take(m.path, 3) = << "/", "f", "/" >> ) =>
             /\ m.res.kind = "match" /\ m.res.index = 1
             /\ \E j \in 1..Len(m.res.params.values) :
                   m.res.params.values[j] = Decoded(rest)
  ]_vars

\* C16: when match returns a route, every required parameter of its pattern
\* is bound; its raw segment is non-empty and has no '/', so a pattern made of
\* literals and required parameters only matches a path with as many segments
\* as the pattern; the value bound to a required parameter that is the first
\* (last) segment of the pattern is the percent-decoding of the first (last)
\* segment of the path.
C16_RequiredParamOwnSegment ==
  [][(routes' = routes /\ matchResult'.called /\ matchResult'.res.kind = "match") =>
       LET m == matchResult'
           pat == Matched(m.res).pattern
           segs == Segments(m.path)
       IN  /\ (\A i \in 1..Len(pat) : pat[i].k \in {"lit", "req"}) =>
                 /\ Len(segs) = Len(Segments([i \in 1..Len(pat) |->
                                    IF pat[i].k = "lit" THEN pat[i].v ELSE "x"]))
           /\ \A i \in 1..Len(pat) :
                 pat[i].k = "req" =>
                   /\ IsBound(m.res, pat[i].v)
                   /\ (i = Len(pat) /\ pat[i - 1] = Lit("/")) =>
                        /\ segs[Len(segs)] # << >>
                        /\ Bound(m.res, pat[i].v) = Decoded(segs[Len(segs)])
                   /\ (i = 2 /\ pat[1] = Lit("/")) =>
                        /\ segs[1] # << >>
                        /\ Bound(m.res, pat[i].v) = Decoded(segs[1])
  ]_vars

\* C17: a route whose pattern is /u/:id? matches /u/2 binding id to "2",
\* matches /u binding id to the empty string, and does not match a path with
\* more than one segment after /u.
C17_OptionalParam ==
  [][(routes' = routes /\ matchResult'.called) =>
       LET m == matchResult'
           segs == Segments(m.path)
       IN  ( /\ routes # << >>
             /\ routes[1].pattern = PatUOpt
             /\ routes[1].method \in {toUpperCase(m.method), "*"} ) =>
             /\ (m.path = << "/", "u", "/", "2" >>) =>
                   /\ m.res.kind = "match" /\ m.res.index = 1
                   /\ Bound(m.res, "id") = << "2" >>
             /\ (m.path = << "/", "u" >>) =>
                   /\ m.res.kind = "match" /\ m.res.index = 1
                   /\ Bound(m.res, "id") = << >>
             /\ (Len(segs) > 2 /\ segs[1] = << "u" >>) => m.res.index # 1
  ]_vars

----------------------------------------------------------------------------
(* Claims about the mutations of the session store *)

\* is the record stored under sid readable at time t ?
Live(s, sid, t) == sid \in DOMAIN s /\ ~ (t > s[sid].expiresAt)

\* every record of s other than sid is in s2 unchanged, and s2 has no
\* record that s has not
OthersUnchanged(s, s2, sid) ==
  /\ \A x \in (DOMAIN s) \ {sid} : x \in DOMAIN s2 /\ s2[x] = s[x]
  /\ (DOMAIN s2) \ {sid} \subseteq DOMAIN s

\* C18: destroy(id) returns true exactly when a record was stored under id
\* just before the call; afterwards no record is stored under id, so get(id)
\* is absent, and every other record is unchanged.
C18_DestroyRemovesOnlyThat ==
  [][lastOp'.op = "destroy" =>
       LET sid == lastOp'.id
       IN  /\ lastOp'.found = (sid \in DOMAIN sessions)
           /\ sid \notin DOMAIN sessions'
           /\ ~ SessionGet(sessions', sid, now').found
           /\ OthersUnchanged(sessions, sessions', sid)
    ]_vars

\* destroy returned true for a stored record while another record stays
C18_Witness ==
  /\ lastOp.op = "destroy" /\ lastOp.found
  /\ lastOp.id \notin DOMAIN sessions
  /\ sessions # EmptyMap

\* C19: update(id, partial) on a live session replaces exactly the fields of
\* partial, leaves createdAt and expiresAt of the record and every other
\* record unchanged and returns true; for an unknown or expired id it
\* returns false and changes no live record.
C19_UpdateMergesFields ==
  [][lastOp'.op = "update" =>
       LET sid == lastOp'.id
           data == lastOp'.arg
       IN  IF Live(sessions, sid, now)
           THEN /\ lastOp'.found
                /\ sid \in DOMAIN sessions'
                /\ \A f \in {"userId", "role", "claims"} :
                     sessions'[sid][f] = IF f \in DOMAIN data THEN data[f]
                                         ELSE sessions[sid][f]
                /\ sessions'[sid].createdAt = sessions[sid].createdAt
                /\ sessions'[sid].expiresAt = sessions[sid].expiresAt
                /\ OthersUnchanged(sessions, sessions', sid)
           ELSE /\ ~ lastOp'.found
                /\ \A x \in DOMAIN sessions :
                     Live(sessions, x, now) =>
                       (x \in DOMAIN sessions' /\ sessions'[x] = sessions[x])
                /\ DOMAIN sessions' \subseteq DOMAIN sessions
    ]_vars

\* the role of a live session was replaced, its user and times kept, while
\* another session is stored
C19_Witness ==
  /\ lastOp.op = "update" /\ lastOp.found
  /\ lastOp.arg = [role |-> "admin"]
  /\ lastOp.id \in DOMAIN sessions
  /\ sessions[lastOp.id].role = "admin"
  /\ sessions[lastOp.id].userId = "u1"
  /\ sessions[lastOp.id].expiresAt = sessions[lastOp.id].createdAt + 1000
  /\ now = sessions[lastOp.id].expiresAt
  /\ SessionSize(sessions) = 2

----------------------------------------------------------------------------
(* Claims about the periodic sweep *)

Expired(s, sid, t) == sid \in DOMAIN s /\ t > s[sid].expiresAt

\* C21: a run of cleanup removes exactly the records whose expiry time has
\* passed and keeps every other record as it was; and while the periodic
\* timer stays set, a record that has expired is eventually out of the store,
\* looked up or not.
C21_SweepRemovesExpired ==
  /\ [][lastOp'.op = "cleanup" =>
          /\ DOMAIN sessions' = { x \in DOMAIN sessions : ~ Expired(sessions, x, now) }
          /\ \A x \in DOMAIN sessions' : sessions'[x] = sessions[x]
       ]_vars
  /\ \A sid \in SessionIds :
       Expired(sessions, sid, now) ~> (sid \notin DOMAIN sessions \/ ~ cleanupInterval)

\* the timer's sweep removed an expired record and kept a live one
C21_Witness ==
  /\ lastOp.op = "cleanup" /\ lastOp.removed
  /\ cleanupInterval
  /\ \E x \in DOMAIN sessions : ~ Expired(sessions, x, now)
  /\ SessionSize(sessions) < Cardinality(issued)

----------------------------------------------------------------------------
(* Claims about the file sandbox *)

\* path p is the directory root or lies beneath it
InsideRoot(p, root) ==
  \/ p = root
  \/ root = << "/" >>
  \/ StartsWith(p, root \o << "/" >>)

\* C23: a file capability hands a path to the filesystem only if every path
\* it resolved is the sandbox root or lies beneath it; a call with a path that
\* resolves outside the root returns the capability's failure value and
\* touches nothing.
C23_SandboxConfinement ==
  lastFile.op # "none" =>
    /\ \A p \in lastFile.touched : InsideRoot(p, lastFile.root)
    /\ (\E i \in 1..Len(lastFile.resolved) :
           ~ InsideRoot(lastFile.resolved[i], lastFile.root)) =>
         (lastFile.result = "failure" /\ lastFile.touched = {})

----------------------------------------------------------------------------
(* Claims about transactions *)

\* C24: the value _db_begin returned is the identifier the driver's
\* beginTransaction produced for that call; _db_commit / _db_rollback return
\* -1 when no database is configured or when the driver fails (unknown
\* identifier, driver error), so a call that returned 0 is one the driver
\* carries out.
C24_TxResultsReported ==
  \A k \in 1..Len(txOps) :
    LET o == txOps[k]
    IN  /\ (o.kind = "begin" /\ o.state = "ok") => o.ret = o.id
        /\ (o.kind \in {"commit", "rollback"} /\ o.state \in {"err", "nodb"}) =>
              o.ret = -1

----------------------------------------------------------------------------
(* Claims about the allocation tracker across instances *)

\* C25: while an instance runs guest code, every open scope of the tracker
\* was pushed, and every tracked pointer was allocated, through that same
\* instance (so no call of the instance can pop, release or free what another
\* request's instance left behind).
C25_TrackerPerInstance ==
  running # 0 =>
    /\ \A i \in 1..Len(trackedBy.scopes) : trackedBy.scopes[i] = running
    /\ \A ptr \in DOMAIN trackedBy.ptrs : trackedBy.ptrs[ptr] = running

\* C29: a call of the tracker never gives free a pointer that free has
\* already been given and malloc has not handed out since, nor the same
\* pointer twice in one call; every pointer of the refcount map has a count of
\* at least 1.
C29_FreeOncePerAllocation ==
  [][/\ \A i \in 1..Len(freeCalls') :
          /\ freeCalls'[i] \notin freed
          /\ \A j \in 1..Len(freeCalls') : j # i => freeCalls'[j] # freeCalls'[i]
     /\ \A ptr \in DOMAIN refCounts' : refCounts'[ptr] >= 1
    ]_vars

\* the second half of C29 alone: every tracked pointer has a count of at least 1
C29_CountsPositive ==
  \A ptr \in DOMAIN refCounts : refCounts[ptr] >= 1

----------------------------------------------------------------------------
(* Claims about suspension *)

\* C26: while a database operation a request's handler issued has not
\* resolved, that request is still Executing (its response has not been sent).
C26_ExecutingUntilResolved ==
  \A k \in 1..Len(dbOps) :
    (dbOps[k].state = "pending" /\ dbOps[k].by # 0) =>
      reqs[dbOps[k].by].pc = "executing"

----------------------------------------------------------------------------
(* Claims about isolation between requests *)

\* C30: a value _db_query, _db_query_result, _db_execute or _db_execute_result
\* returns to a request is never the outcome of an operation that a different
\* request issued.
C30_ResultsOfOwnRequest ==
  (/\ lastCall.fn \in {"_db_query", "_db_query_result", "_db_execute",
                       "_db_execute_result"}
   /\ lastCall.ret.op # 0)
    => dbOps[lastCall.ret.op].by = lastCall.by

----------------------------------------------------------------------------
(* Claims about faults inside capability calls *)

\* C27: no request is answered with an error response because the read of
\* a capability's (ptr, len) argument or the write of its result faulted: the
\* fault stays inside the capability call.
C27_FaultContained ==
  \A r \in Reqs : reqs[r].errorAt # "capability"

----------------------------------------------------------------------------
(* Claims about the key-value calls of the session bridge *)

\* what a key-value call gives with a store of the given kind
BridgeOutcome(b, methods) ==
  IF b.fn = "_session_store"
    THEN session_store(sessions, methods, b.sid, b.key, b.value, now)
  ELSE IF b.fn = "_session_get_value"
    THEN session_get_value(sessions, methods, b.sid, b.key, now)
  ELSE IF b.fn = "_session_delete"
    THEN session_delete(sessions, methods, b.sid, b.key, now)
  ELSE session_has_key(sessions, methods, b.sid, b.key, now)

\* C28: every _session_store, _session_get_value, _session_delete and
\* _session_has_key call returns the value, and leaves the sessions with the
\* claims maps, that it would with a store of the other kind (one that
\* implements storeValue / getValue / deleteValue / hasKey, one that does not).
C28_SameWithEitherStore ==
  [][(lastBridge'.fn # "none" /\ now' = now /\ issued' = issued) =>
       \A methods \in BOOLEAN :
         LET e == BridgeOutcome(lastBridge', methods)
         IN  /\ sessions' = e.store
             /\ IF lastBridge'.fn = "_session_get_value"
                THEN lastBridge'.str = e.ret
                ELSE lastBridge'.num = e.ret
    ]_vars

\* a store without the optional methods: _session_delete of a key that a
\* live session does not hold has returned 0
C28_Witness ==
  /\ ~ valueMethods
  /\ lastBridge.fn = "_session_delete" /\ lastBridge.num = 0
  /\ lastBridge.sid \in DOMAIN sessions
  /\ now <= sessions[lastBridge.sid].expiresAt

====
